---- MODULE Spec2Model ----
(***************************************************************************)
(* VitalCare Rural: the vitals sampling and alert loop.                    *)
(*                                                                         *)
(* Part 1 models the single-board firmware                                 *)
(* (src/firmware/esp32-main/src/main.cpp): setup(), loop() and the         *)
(* functions loop() calls.  Time is millis() in milliseconds; it advances  *)
(* only in delay() calls, every other statement taking no time.            *)
(*                                                                         *)
(* Number representation: heartRate and spO2 are whole numbers in the      *)
(* code's arithmetic (pulseCount * 60.0 / 15.0 is a multiple of 4);        *)
(* systolicBP, diastolicBP and temperature carry one decimal and are kept  *)
(* in tenths; pressure is kept in Pa (hundredths of hPa).                  *)
(***************************************************************************)
EXTENDS Integers, Sequences, FiniteSets, TLC

VARIABLES
    now,                \* millis()
    pc,                 \* position of loop(): client, sense, update, save, idle
    patientRegistered, sdCardReady, sim800Ready, bmp180Ready,
    currentPatient, currentVitals,
    lastVitalUpdate, lastSensorRead, lastDataSave, lastHeartbeatTime,
    lastPulseValue, pulseDetected, pulseCount, pulseWindow,
    wave, phase,        \* environment: the pulse waveform and the place in it
    requests,           \* environment: HTTP requests handled so far
    sensorModule,       \* the globals of the sensor module (part 2)
    sensorEnv,          \* environment of the sensor module: its pulse signal
    net,                \* the servers setup() started, the WebSocket clients
    sdCard,             \* the files of the SD card: name -> lines
    outbox,             \* what the last step emitted: buzzer pulses, SMS,
                        \* WebSocket messages, HTTP responses
    lastCalc,           \* history: what the last calculateHeartRate call did
                        \* and the windows closed so far
    totalBeats,         \* history: beats counted by readSensors since boot
    ratedBeats,         \* history: beats turned into a rate at a window close
    trueTime,           \* history: the time since boot and the times of the
                        \* five references of the elapsed-time checks, as a
                        \* clock that never wraps would give them
    dashboard           \* the dashboard script in a browser (part 3)

vars == << now, pc, patientRegistered, sdCardReady, sim800Ready, bmp180Ready,
           currentPatient, currentVitals,
           lastVitalUpdate, lastSensorRead, lastDataSave, lastHeartbeatTime,
           lastPulseValue, pulseDetected, pulseCount, pulseWindow,
           wave, phase, requests, sensorModule, sensorEnv, net, sdCard,
           outbox, lastCalc, totalBeats, ratedBeats, trueTime, dashboard >>

---------------------------------------------------------------------------
(* Program constants of the firmware *)

VITAL_UPDATE_INTERVAL == 1000
SENSOR_READ_INTERVAL == 100
DATA_SAVE_INTERVAL == 30000
HEARTBEAT_TIMEOUT == 10000
pulseThreshold == 2048
PULSE_WINDOW_MS == 15000
HEART_RATE_CEILING == 200
LOOP_IDLE_DELAY == 10
BUZZER_DELAY == 100
SMS_DELAY == 1000 + 1000 + 1000 + 5000
SETUP_SERIAL_DELAY == 2000
SETUP_SIM800_DELAY == 3000 + 1000

(* Bounds of the model *)
MaxPulseTime == 17300
MaxTime == 17300
MaxRequests == 1
MaxPolls == 1
(* the history variables record the first MaxBeats beats and the first     *)
(* MaxWindows counting windows of a run                                    *)
MaxBeats == 128
MaxWindows == 2

---------------------------------------------------------------------------
(* millis() is an unsigned long, which wraps, and so does the difference   *)
(* of two readings.  The clock of the model wraps at ClockWrap: the runs   *)
(* that are followed for ever and the run of SpecWrap cross the wrap, the  *)
(* other bounded runs end before it.  The sensor module is a second        *)
(* board: its clock wraps at SmClockWrap.                                  *)
ClockWrap == 45500
SmClockWrap == 50500

Elapsed(later, earlier) == (later - earlier) % ClockWrap
SmElapsed(later, earlier) == (later - earlier) % SmClockWrap

(* The dashboard before the page is loaded: the fields of the constructor *)
NoDashboard ==
    [ ws |-> 0, sockets |-> << >>, timers |-> 0, connected |-> FALSE,
      patientRegistered |-> FALSE, received |-> 0, vitalsHistory |-> << >> ]

(* The history of true times: until the clock wraps for the first time    *)
(* the true times are the readings of millis().  The history is kept up   *)
(* to MaxUptime milliseconds after boot.                                   *)
MaxUptime == 100000

TrueTimeAsRead ==
    [ uptime |-> now, lastSensorRead |-> lastSensorRead,
      lastVitalUpdate |-> lastVitalUpdate, lastDataSave |-> lastDataSave,
      pulseWindow |-> pulseWindow, lastHeartbeatTime |-> lastHeartbeatTime ]

Later(d) ==
    IF trueTime.uptime + d < MaxUptime THEN trueTime.uptime + d
                                       ELSE MaxUptime

(* The snapshot and the patient as the globals hold them before setup()    *)
NoPatient ==
    [ id |-> "", name |-> "", age |-> 0, gender |-> "", contact |-> "",
      emergencyContact |-> "", medicalConditions |-> "",
      registrationTime |-> 0 ]

ZeroVitals ==
    [ heartRate |-> 0, systolicBP |-> 0, diastolicBP |-> 0, spO2 |-> 0,
      temperature |-> 0, ecgValue |-> 0, pressure |-> 0, timestamp |-> 0,
      status |-> "" ]

(* The sensor module (esp32-sensors) is a second board with its own clock. *)
(* Its globals are the fields of one record.  Heart rates are floats in    *)
(* the source: they are kept in thousandths of a beat per minute, and      *)
(* ecgHeartRate as the quotient beats * 60000.0 / ms it was computed from. *)
RATE_SCALE == 1000
SM_SENSOR_READ_INTERVAL == 500
DATA_SEND_INTERVAL == 1000
threshold == 2048
ecgThreshold == 2000
REARM_MARGIN == 100
REFRACTORY_MS == 300
RATE_MIN == 40
RATE_MAX == 200
BPM_BEATS == 10
BPM_PERIOD == 10000
SM_SETUP_DELAY == 1000
WIFI_ATTEMPT_DELAY == 1000
WIFI_ATTEMPTS == 30
BLINK_DELAY == 100

SensorGlobals ==
    [ millis |-> 0, pc |-> "off", wifiConnected |-> FALSE,
      currentSensorData |->
        [ heartRateECG |-> 0, heartRatePulse |-> 0, temperature |-> 0,
          pressure |-> 0, spO2 |-> 0, sensorsConnected |-> FALSE,
          timestamp |-> 0 ],
      lastSensorRead |-> 0, lastDataTransmission |-> 0,
      pulseSignal |-> 0, BPM |-> 0, pulseDetected |-> FALSE, lastBeat |-> 0,
      beatCount |-> 0, beatStartTime |-> 0,
      ecgSignal |-> 0, leadsConnected |-> TRUE,
      ecgHeartRate |-> [ beats |-> 0, ms |-> 1 ], ecgBeatCount |-> 0,
      ecgBeatTime |-> 0, lastHeartRate |-> 0, lastBlink |-> 0 ]

NoSignal == [ pattern |-> << 0 >>, step |-> 0 ]

(* setup(): the state loop() starts from.  A SPIFFS failure returns before *)
(* the SD card, the SIM800L and the default snapshot are set up.           *)
Setup(spiffsOk, bmp, sd, sim) ==
    /\ bmp180Ready = bmp
    /\ pulseWindow = SETUP_SERIAL_DELAY
    /\ sdCardReady = (spiffsOk /\ sd)
    /\ sim800Ready = (spiffsOk /\ sim)
    /\ now = IF spiffsOk THEN SETUP_SERIAL_DELAY + SETUP_SIM800_DELAY
                         ELSE SETUP_SERIAL_DELAY
    /\ currentVitals = IF spiffsOk
                         THEN [ZeroVitals EXCEPT !.timestamp = now,
                                                 !.status = "System Ready"]
                         ELSE ZeroVitals
    /\ currentPatient = NoPatient
    /\ patientRegistered = FALSE
    /\ lastVitalUpdate = 0
    /\ lastSensorRead = 0
    /\ lastDataSave = 0
    /\ lastHeartbeatTime = 0
    /\ lastPulseValue = 0
    /\ pulseDetected = FALSE
    /\ pulseCount = 0
    /\ pc = "client"
    /\ phase = 0
    /\ requests = 0
    /\ sensorModule = SensorGlobals
    /\ sensorEnv = NoSignal
    /\ net = [ ap |-> spiffsOk, server |-> spiffsOk, webSocket |-> spiffsOk,
               clients |-> 0 ]
    /\ sdCard = << >>
    /\ outbox = << >>
    /\ lastCalc = [ time |-> 0, closed |-> FALSE, beats |-> 0,
                    windows |-> << >> ]
    /\ totalBeats = 0
    /\ ratedBeats = 0
    /\ trueTime = TrueTimeAsRead
    /\ dashboard = NoDashboard

---------------------------------------------------------------------------
(* loop(): which block runs next.  The elapsed-time conditions are checked *)
(* in the order sensor read, UI update, SD save; a block whose condition   *)
(* is false is passed over.                                                *)
(* a save block that would run in every update cycle *)
SaveDue_Signed(t) == t - lastDataSave >= DATA_SAVE_INTERVAL
SaveDue_EveryCycle(t) == Elapsed(t, lastDataSave) >= VITAL_UPDATE_INTERVAL

SensorDue(t) == Elapsed(t, lastSensorRead) >= SENSOR_READ_INTERVAL
VitalDue(t)  == Elapsed(t, lastVitalUpdate) >= VITAL_UPDATE_INTERVAL
SaveDue(t)   == Elapsed(t, lastDataSave) >= DATA_SAVE_INTERVAL

FromSave(t)   == IF SaveDue(t) THEN "save" ELSE "idle"
FromUpdate(t) == IF VitalDue(t) THEN "update" ELSE FromSave(t)
FromSense(t)  == IF SensorDue(t) THEN "sense" ELSE FromUpdate(t)

---------------------------------------------------------------------------
(* readSensors(): the pulse detector counts an upward crossing of          *)
(* pulseThreshold between two consecutive samples.                         *)
BeatDetected_AtThreshold(pulseValue) ==
    pulseValue >= pulseThreshold /\ lastPulseValue <= pulseThreshold

BeatDetected(pulseValue) ==
    pulseValue > pulseThreshold /\ lastPulseValue <= pulseThreshold

(* The inputs are what the hardware returns: the pulse sample, the two     *)
(* lead-off pins, the ECG sample, the BMP180 temperature (tenths of a      *)
(* degree Celsius) and pressure (Pa), and the three random() draws.        *)
readSensors(pulseValue, loPlus, loMinus, ecgAnalog, bmpC, bmpPa, rT, rP, rS) ==
    LET ecg == IF ~loPlus /\ ~loMinus THEN ecgAnalog ELSE 0
    IN  /\ IF BeatDetected(pulseValue)
             THEN /\ pulseDetected' = TRUE
                  /\ pulseCount' = pulseCount + 1
                  /\ lastHeartbeatTime' = now
                  /\ totalBeats' = IF totalBeats < MaxBeats
                                     THEN totalBeats + 1 ELSE totalBeats
             ELSE UNCHANGED << pulseDetected, pulseCount, lastHeartbeatTime,
                               totalBeats >>
        /\ lastPulseValue' = pulseValue
        /\ currentVitals' =
             [currentVitals EXCEPT
                !.ecgValue = ecg,
                !.temperature = IF bmp180Ready THEN (bmpC * 9) \div 5 + 320
                                               ELSE 986 + rT,
                !.pressure = IF bmp180Ready THEN bmpPa
                                            ELSE 101325 + 100 * rP,
                !.spO2 = IF ecg > 0 THEN 98 + rS ELSE 95]

---------------------------------------------------------------------------
(* Variants of calculateHeartRate that a slip in the code would produce:   *)
(* the timeout checked before the window is closed, the upper bound        *)
(* dropped, the count kept when the window closes, and the new rate        *)
(* averaged with the previous one.                                         *)
calculateHeartRate_TimeoutFirst(currentTime) ==
    LET closes == Elapsed(currentTime, pulseWindow) >= PULSE_WINDOW_MS
        hr1 == IF Elapsed(currentTime, lastHeartbeatTime) > HEARTBEAT_TIMEOUT
                 THEN 0 ELSE currentVitals.heartRate
        hr2 == IF closes THEN (pulseCount * 60) \div 15 ELSE hr1
        hr3 == IF hr2 < 0 THEN 0 ELSE hr2
        hr4 == IF hr3 > HEART_RATE_CEILING THEN HEART_RATE_CEILING ELSE hr3
    IN  [ heartRate |-> hr4,
          pulseCount |-> IF closes THEN 0 ELSE pulseCount,
          pulseWindow |-> IF closes THEN currentTime ELSE pulseWindow,
          closed |-> closes ]

calculateHeartRate_NoCeiling(currentTime) ==
    LET closes == Elapsed(currentTime, pulseWindow) >= PULSE_WINDOW_MS
        hr1 == IF closes THEN (pulseCount * 60) \div 15
                         ELSE currentVitals.heartRate
        hr2 == IF Elapsed(currentTime, lastHeartbeatTime) > HEARTBEAT_TIMEOUT
                 THEN 0 ELSE hr1
    IN  [ heartRate |-> IF hr2 < 0 THEN 0 ELSE hr2,
          pulseCount |-> IF closes THEN 0 ELSE pulseCount,
          pulseWindow |-> IF closes THEN currentTime ELSE pulseWindow,
          closed |-> closes ]

calculateHeartRate_KeepCount(currentTime) ==
    LET closes == Elapsed(currentTime, pulseWindow) >= PULSE_WINDOW_MS
        hr1 == IF closes THEN (pulseCount * 60) \div 15
                         ELSE currentVitals.heartRate
        hr2 == IF Elapsed(currentTime, lastHeartbeatTime) > HEARTBEAT_TIMEOUT
                 THEN 0 ELSE hr1
        hr3 == IF hr2 < 0 THEN 0 ELSE hr2
        hr4 == IF hr3 > HEART_RATE_CEILING THEN HEART_RATE_CEILING ELSE hr3
    IN  [ heartRate |-> hr4,
          pulseCount |-> pulseCount,
          pulseWindow |-> IF closes THEN currentTime ELSE pulseWindow,
          closed |-> closes ]

calculateHeartRate_Smoothed(currentTime) ==
    LET closes == Elapsed(currentTime, pulseWindow) >= PULSE_WINDOW_MS
        hr1 == IF closes
                 THEN ((pulseCount * 60) \div 15 + currentVitals.heartRate) \div 2
                 ELSE currentVitals.heartRate
        hr2 == IF Elapsed(currentTime, lastHeartbeatTime) > HEARTBEAT_TIMEOUT
                 THEN 0 ELSE hr1
        hr3 == IF hr2 < 0 THEN 0 ELSE hr2
        hr4 == IF hr3 > HEART_RATE_CEILING THEN HEART_RATE_CEILING ELSE hr3
    IN  [ heartRate |-> hr4,
          pulseCount |-> IF closes THEN 0 ELSE pulseCount,
          pulseWindow |-> IF closes THEN currentTime ELSE pulseWindow,
          closed |-> closes ]

(* calculateHeartRate(): the 15 s counting window, the heartbeat timeout   *)
(* and the bounds check, in the order of the code.  The result is the new  *)
(* heartRate, pulseCount and pulseWindow.                                  *)
calculateHeartRate(currentTime) ==
    LET closes == Elapsed(currentTime, pulseWindow) >= PULSE_WINDOW_MS
        hr1 == IF closes THEN (pulseCount * 60) \div 15
                         ELSE currentVitals.heartRate
        hr2 == IF Elapsed(currentTime, lastHeartbeatTime) > HEARTBEAT_TIMEOUT
                 THEN 0 ELSE hr1
        hr3 == IF hr2 < 0 THEN 0 ELSE hr2
        hr4 == IF hr3 > HEART_RATE_CEILING THEN HEART_RATE_CEILING ELSE hr3
    IN  [ heartRate |-> hr4,
          pulseCount |-> IF closes THEN 0 ELSE pulseCount,
          pulseWindow |-> IF closes THEN currentTime ELSE pulseWindow,
          closed |-> closes ]

(* estimateBloodPressure(): tenths of mmHg, r1 and r2 the random() draws   *)
estimateBloodPressure(hr, r1, r2) ==
    IF hr > 0
      THEN LET baseSystolic == IF hr > 100 THEN 1200 + (hr - 100) * 5
                               ELSE IF hr < 60 THEN 1200 - (60 - hr) * 3
                               ELSE 1200
               baseDiastolic == IF hr > 100 THEN 800 + (hr - 100) * 3
                                ELSE IF hr < 60 THEN 800 - (60 - hr) * 2
                                ELSE 800
           IN  [ systolicBP |-> baseSystolic + 10 * r1,
                 diastolicBP |-> baseDiastolic + 10 * r2 ]
      ELSE [ systolicBP |-> 0, diastolicBP |-> 0 ]

---------------------------------------------------------------------------
(* checkForAlerts(): the four band checks and the verdict                  *)
(* band checks with a wrong limit, as a slip in a threshold would give     *)
HeartRateAlert_Low40(v)    == v.heartRate < 40 \/ v.heartRate > 120
SpO2Alert_Below80(v)       == v.spO2 < 80
TemperatureAlert_Over98(v) == v.temperature > 980 \/ v.temperature < 950

(* a blood-pressure check that would also look at the diastolic value *)
BloodPressureAlert_Diastolic(v) ==
    v.systolicBP > 1600 \/ v.systolicBP < 800 \/ v.diastolicBP < 600

HeartRateAlert(v)     == v.heartRate < 50 \/ v.heartRate > 120
BloodPressureAlert(v) == v.systolicBP > 1600 \/ v.systolicBP < 800
SpO2Alert(v)          == v.spO2 < 90
TemperatureAlert(v)   == v.temperature > 1020 \/ v.temperature < 950

alertCondition(v) ==
    HeartRateAlert(v) \/ BloodPressureAlert(v) \/ SpO2Alert(v)
      \/ TemperatureAlert(v)

(* the status checkForAlerts leaves ("⚠️ ALERT" / "✅ Normal" in the code) *)
checkForAlerts(v) == IF alertCondition(v) THEN "ALERT" ELSE "Normal"

(* time checkForAlerts blocks in delay(): the buzzer pulse, and the four   *)
(* delays of sendSMSAlert when an SMS is sent                              *)
SmsConfigured == sim800Ready /\ currentPatient.emergencyContact # ""

AlertBlocking(v) ==
    IF alertCondition(v)
      THEN BUZZER_DELAY + (IF SmsConfigured THEN SMS_DELAY ELSE 0)
      ELSE 0

(* a variant that lists every vital in the message, in band or not *)
alertMessage_AllVitals(v) ==
    << [ label |-> "Heart Rate: ", values |-> << v.heartRate >>,
         unit |-> " BPM. " ],
       [ label |-> "Blood Pressure: ",
         values |-> << v.systolicBP, v.diastolicBP >>, unit |-> " mmHg. " ],
       [ label |-> "SpO2: ", values |-> << v.spO2 >>, unit |-> "%. " ],
       [ label |-> "Temperature: ", values |-> << v.temperature >>,
         unit |-> "°F. " ] >>

(* alertMessage: one segment per vital outside its band, in the order of   *)
(* the checks.  A segment keeps the label, the printed values and the unit *)
(* that the code concatenates.                                             *)
alertMessage(v) ==
    LET hr == IF HeartRateAlert(v)
                THEN << [ label |-> "Heart Rate: ", values |-> << v.heartRate >>,
                          unit |-> " BPM. " ] >>
                ELSE << >>
        bp == IF BloodPressureAlert(v)
                THEN << [ label |-> "Blood Pressure: ",
                          values |-> << v.systolicBP, v.diastolicBP >>,
                          unit |-> " mmHg. " ] >>
                ELSE << >>
        ox == IF SpO2Alert(v)
                THEN << [ label |-> "SpO2: ", values |-> << v.spO2 >>,
                          unit |-> "%. " ] >>
                ELSE << >>
        tp == IF TemperatureAlert(v)
                THEN << [ label |-> "Temperature: ",
                          values |-> << v.temperature >>, unit |-> "°F. " ] >>
                ELSE << >>
    IN  hr \o bp \o ox \o tp

(* smsMessage (line 541): the parts of the concatenation *)
smsMessage(v) ==
    [ prefix |-> "ALERT: ", subject |-> currentPatient.name,
      separator |-> " - ", segments |-> alertMessage(v),
      suffix |-> "Location: VitalCare Rural Clinic" ]

(* sendSMSAlert(message): the SMS handed to the SIM800L *)
sendSMSAlert(message) ==
    IF ~sim800Ready THEN << >>
    ELSE << [ kind |-> "sms", to |-> currentPatient.emergencyContact,
              body |-> message ] >>

(* a variant that sends the SMS only in the first cycle of an alert       *)
(* episode, as a de-duplication on the previous status would              *)
AlertNotifications_OncePerEpisode(v) ==
    IF alertCondition(v)
      THEN << [ kind |-> "buzzer" ] >>
             \o (IF SmsConfigured /\ currentVitals.status # "ALERT"
                   THEN sendSMSAlert(smsMessage(v)) ELSE << >>)
      ELSE << >>

(* checkForAlerts lines 529-545: the buzzer pulse and the SMS of a cycle   *)
AlertNotifications(v) ==
    IF alertCondition(v)
      THEN << [ kind |-> "buzzer" ] >>
             \o (IF SmsConfigured THEN sendSMSAlert(smsMessage(v)) ELSE << >>)
      ELSE << >>

(* a variant that broadcasts only while a patient is registered *)
sendVitalSignsToClients_RegisteredOnly(v) ==
    IF patientRegistered
      THEN << [ kind |-> "broadcast", type |-> "vitals", doc |-> v,
                clients |-> net.clients ] >>
      ELSE << >>

(* sendVitalSignsToClients(): the message broadcastTXT hands to every      *)
(* connected client                                                        *)
sendVitalSignsToClients(v) ==
    << [ kind |-> "broadcast", type |-> "vitals", doc |-> v,
         clients |-> net.clients ] >>

(* formatTimestamp(): "H:MM:SS" as its three numbers *)
formatTimestamp(timestamp) ==
    LET seconds == timestamp \div 1000
        minutes == seconds \div 60
        hours == minutes \div 60
    IN  << hours % 24, minutes % 60, seconds % 60 >>

---------------------------------------------------------------------------
(* loop(), block by block.                                                 *)

(* server.handleClient() and webSocket.loop() with no request pending      *)
NoRequest ==
    /\ pc = "client"
    /\ pc' = FromSense(now)
    /\ outbox' = << >>
    /\ UNCHANGED << dashboard, sensorModule, sensorEnv, net, sdCard,
                    now, patientRegistered, sdCardReady, sim800Ready,
                    bmp180Ready, currentPatient, currentVitals,
                    lastVitalUpdate, lastSensorRead, lastDataSave,
                    lastHeartbeatTime, lastPulseValue, pulseDetected,
                    pulseCount, pulseWindow, wave, phase, requests, lastCalc,
                    totalBeats, ratedBeats,
                    trueTime >>

(* lines 195-199: readSensors(); lastSensorRead = millis()                 *)
SenseStep(pulseValue, loPlus, loMinus, ecgAnalog, bmpC, bmpPa, rT, rP, rS) ==
    /\ pc = "sense"
    /\ readSensors(pulseValue, loPlus, loMinus, ecgAnalog, bmpC, bmpPa,
                   rT, rP, rS)
    /\ lastSensorRead' = now
    /\ trueTime' = [trueTime EXCEPT
                      !.lastSensorRead = trueTime.uptime,
                      !.lastHeartbeatTime =
                         IF BeatDetected(pulseValue) THEN trueTime.uptime
                                                     ELSE @]
    /\ pc' = FromUpdate(now)
    /\ outbox' = << >>
    /\ UNCHANGED << dashboard, sensorModule, sensorEnv, net, sdCard,
                    now, patientRegistered, sdCardReady, sim800Ready,
                    bmp180Ready, currentPatient, lastVitalUpdate, lastDataSave,
                    pulseWindow, requests, lastCalc, ratedBeats >>

(* lines 202-220: calculateHeartRate, estimateBloodPressure, the status,   *)
(* checkForAlerts with its delays, the broadcast, lastVitalUpdate          *)
UpdateStep(r1, r2) ==
    /\ pc = "update"
    /\ LET c  == calculateHeartRate(now)
           bp == estimateBloodPressure(c.heartRate, r1, r2)
           v  == [currentVitals EXCEPT !.heartRate = c.heartRate,
                                       !.systolicBP = bp.systolicBP,
                                       !.diastolicBP = bp.diastolicBP,
                                       !.timestamp = now]
           done == now + (IF patientRegistered THEN AlertBlocking(v) ELSE 0)
           committed == [v EXCEPT !.status = IF patientRegistered
                                               THEN checkForAlerts(v)
                                               ELSE "No Patient"]
       IN  /\ currentVitals' = committed
           /\ outbox' = (IF patientRegistered THEN AlertNotifications(v)
                                              ELSE << >>)
                          \o sendVitalSignsToClients(committed)
           /\ pulseCount' = c.pulseCount
           /\ pulseWindow' = c.pulseWindow
           /\ lastCalc' =
                [ time |-> now, closed |-> c.closed,
                  beats |-> IF c.closed THEN pulseCount ELSE 0,
                  windows |->
                    IF c.closed /\ Len(lastCalc.windows) < MaxWindows
                      THEN Append(lastCalc.windows,
                                  [ beats |-> pulseCount,
                                    stale |-> Elapsed(now, lastHeartbeatTime)
                                                > HEARTBEAT_TIMEOUT,
                                    rate |-> c.heartRate ])
                      ELSE lastCalc.windows ]
           /\ ratedBeats' =
                IF ~c.closed THEN ratedBeats
                ELSE IF ratedBeats + pulseCount < MaxBeats
                  THEN ratedBeats + pulseCount ELSE MaxBeats
           /\ now' = done % ClockWrap
           /\ lastVitalUpdate' = done % ClockWrap
           /\ trueTime' = [trueTime EXCEPT
                             !.uptime = Later(done - now),
                             !.lastVitalUpdate = Later(done - now),
                             !.pulseWindow = IF c.closed THEN trueTime.uptime
                                                         ELSE @]
           /\ pc' = IF Elapsed(done, lastDataSave) >= DATA_SAVE_INTERVAL
                      THEN "save" ELSE "idle"
    /\ UNCHANGED << dashboard, sensorModule, sensorEnv, net, sdCard,
                    patientRegistered, sdCardReady, sim800Ready, bmp180Ready,
                    currentPatient, lastSensorRead, lastDataSave,
                    lastHeartbeatTime, lastPulseValue, pulseDetected,
                    wave, phase, requests, totalBeats >>

(* line 233: delay(10).  Iterations in which no request is pending and no  *)
(* block is due change nothing but millis(): they are taken together, up   *)
(* to the first iteration in which a block is due.                         *)
AnyDue(t) == SensorDue(t) \/ VitalDue(t) \/ SaveDue(t)

IdleIterations ==
    CHOOSE k \in 1..(SENSOR_READ_INTERVAL \div LOOP_IDLE_DELAY) :
        /\ AnyDue(now + k * LOOP_IDLE_DELAY)
        /\ \A j \in 1..(k - 1) : ~AnyDue(now + j * LOOP_IDLE_DELAY)

IdleDelay ==
    /\ pc = "idle"
    /\ now' = (now + IdleIterations * LOOP_IDLE_DELAY) % ClockWrap
    /\ trueTime' = [trueTime EXCEPT
                      !.uptime = Later(IdleIterations * LOOP_IDLE_DELAY)]
    /\ pc' = "client"
    /\ outbox' = << >>
    /\ UNCHANGED << dashboard, sensorModule, sensorEnv, net, sdCard,
                    patientRegistered, sdCardReady, sim800Ready, bmp180Ready,
                    currentPatient, currentVitals, lastVitalUpdate,
                    lastSensorRead, lastDataSave, lastHeartbeatTime,
                    lastPulseValue, pulseDetected, pulseCount, pulseWindow,
                    wave, phase, requests, lastCalc, totalBeats, ratedBeats >>

---------------------------------------------------------------------------
(* The per-vital classifiers of the dashboard script (getHeartRateStatus,  *)
(* getSpO2Status) and the emergency test of the communication module       *)
(* (isEmergency), on the values the firmware sends.                        *)
getHeartRateStatus(hr) ==
    IF hr < 50 THEN [ text |-> "Critical Low", level |-> "critical" ]
    ELSE IF hr < 60 THEN [ text |-> "Bradycardia", level |-> "warning" ]
    ELSE IF hr > 120 THEN [ text |-> "Critical High", level |-> "critical" ]
    ELSE IF hr > 100 THEN [ text |-> "Tachycardia", level |-> "warning" ]
    ELSE [ text |-> "Normal", level |-> "normal" ]

getSpO2Status(spo2) ==
    IF spo2 < 88 THEN [ text |-> "Critical", level |-> "critical" ]
    ELSE IF spo2 < 95 THEN [ text |-> "Low", level |-> "warning" ]
    ELSE IF spo2 < 97 THEN [ text |-> "Below Normal", level |-> "warning" ]
    ELSE [ text |-> "Normal", level |-> "normal" ]

isEmergency(vital) ==
    \/ vital.heartRate < 50 \/ vital.heartRate > 120
    \/ vital.systolicBP < 900 \/ vital.systolicBP > 1600
    \/ vital.spO2 < 90
    \/ vital.temperature < 960 \/ vital.temperature > 1020

---------------------------------------------------------------------------
(* The evaluator as a function of the snapshot: lines 208-212 of loop()    *)
(* for a registered patient, applied to snapshots drawn from the values    *)
(* around every band limit.                                                *)
EvaluateSnapshot ==
    /\ pc = "evaluate"
    /\ patientRegistered
    /\ currentVitals' =
         [currentVitals EXCEPT !.status = checkForAlerts(currentVitals)]
    /\ now' = now + AlertBlocking(currentVitals)
    /\ trueTime' = [trueTime EXCEPT
                      !.uptime = Later(AlertBlocking(currentVitals))]
    /\ outbox' = AlertNotifications(currentVitals)
    /\ pc' = "evaluated"
    /\ UNCHANGED << dashboard, sensorModule, sensorEnv, net, sdCard,
                    patientRegistered, sdCardReady, sim800Ready, bmp180Ready,
                    currentPatient, lastVitalUpdate, lastSensorRead,
                    lastDataSave, lastHeartbeatTime, lastPulseValue,
                    pulseDetected, pulseCount, pulseWindow, wave, phase,
                    requests, lastCalc, totalBeats, ratedBeats >>

(* the waveform with no pulse, and the registration documents used as    *)
(* inputs                                                                *)
Flat == [ high |-> 0, low |-> 1 ]

Docs ==
    { [ name |-> "Asha", age |-> 40, gender |-> "F", contact |-> "c",
        emergencyContact |-> e, medicalConditions |-> "" ] :
      e \in { "", "+910000000000" } }

EvalHeartRates   == { 0, 45, 49, 50, 75, 120, 121 }
EvalSystolics    == { 0, 790, 800, 1200, 1600, 1610 }
EvalDiastolics   == { 0, 800 }
EvalSpO2s        == { 85, 89, 90, 95, 99 }
EvalTemperatures == { 940, 950, 986, 1020, 1030 }
EvalPressures    == { 90000, 101325 }

InitEval ==
    /\ now = 7000
    /\ pc = "evaluate"
    /\ patientRegistered = TRUE
    /\ sdCardReady = TRUE
    /\ bmp180Ready = TRUE
    /\ \E sim \in BOOLEAN : sim800Ready = sim
    /\ \E doc \in Docs :
          currentPatient =
            [ id |-> "VCR6000100", name |-> doc.name,
              age |-> doc.age, gender |-> doc.gender, contact |-> doc.contact,
              emergencyContact |-> doc.emergencyContact,
              medicalConditions |-> doc.medicalConditions,
              registrationTime |-> 6000 ]
    /\ \E hr \in EvalHeartRates, sys \in EvalSystolics, dia \in EvalDiastolics,
          ox \in EvalSpO2s, temp \in EvalTemperatures, ecg \in { 0, 1800 },
          pa \in EvalPressures :
          currentVitals =
            [ heartRate |-> hr, systolicBP |-> sys, diastolicBP |-> dia,
              spO2 |-> ox, temperature |-> temp, ecgValue |-> ecg,
              pressure |-> pa, timestamp |-> 7000,
              status |-> "Monitoring" ]
    /\ lastVitalUpdate = 6000
    /\ lastSensorRead = 7000
    /\ lastDataSave = 0
    /\ lastHeartbeatTime = 0
    /\ lastPulseValue = 0
    /\ pulseDetected = FALSE
    /\ pulseCount = 0
    /\ pulseWindow = SETUP_SERIAL_DELAY
    /\ wave = Flat
    /\ phase = 0
    /\ requests = 1
    /\ sensorModule = SensorGlobals
    /\ sensorEnv = NoSignal
    /\ net = [ ap |-> TRUE, server |-> TRUE, webSocket |-> TRUE,
               clients |-> 0 ]
    /\ sdCard = << >>
    /\ outbox = << >>
    /\ lastCalc = [ time |-> 7000, closed |-> FALSE, beats |-> 0,
                    windows |-> << >> ]
    /\ totalBeats = 0
    /\ ratedBeats = 0
    /\ trueTime = TrueTimeAsRead
    /\ dashboard = NoDashboard

SpecEval == InitEval /\ [][EvaluateSnapshot]_vars

---------------------------------------------------------------------------
(* The pulse detector and the rate aggregator under every sample sequence: *)
(* no client connects, the pulse sample is free at every read (below, at   *)
(* and above the threshold), the other inputs are held still.              *)
PulseSamples == { pulseThreshold - 1, pulseThreshold, pulseThreshold + 1 }

InitPulse == Setup(TRUE, FALSE, FALSE, FALSE) /\ wave = Flat

SensePulse ==
    /\ \E pulseValue \in PulseSamples :
          SenseStep(pulseValue, FALSE, FALSE, 1800, 0, 0, 0, 0, 0)
    /\ UNCHANGED << wave, phase >>

UpdateQuiet == UpdateStep(0, 0)

IdlePulse == now < MaxPulseTime /\ IdleDelay

NextPulse == NoRequest \/ SensePulse \/ UpdateQuiet \/ IdlePulse

SpecPulse == InitPulse /\ [][NextPulse]_vars

---------------------------------------------------------------------------
(* handlePatientRegistration(), run by server.handleClient() for a POST to *)
(* /api/register-patient.  hasBody is server.hasArg("plain"), parses is    *)
(* !error of deserializeJson, doc the parsed fields, r the random() draw   *)
(* of generatePatientID.                                                   *)
generatePatientID(r) == "VCR" \o ToString(now) \o ToString(r)

(* a variant that registers whenever a body was received *)
handlePatientRegistration_AnyBody(hasBody, parses, doc, r) ==
    /\ pc = "client"
    /\ net.server
    /\ requests < MaxRequests
    /\ requests' = requests + 1
    /\ outbox' =
         IF hasBody /\ parses
           THEN << [ kind |-> "response", code |-> 200, success |-> TRUE,
                     patientId |-> generatePatientID(r),
                     message |-> "Patient registered successfully" ] >>
           ELSE << [ kind |-> "response", code |-> 400, success |-> FALSE,
                     message |-> IF hasBody THEN "Invalid JSON"
                                            ELSE "No data received" ] >>
    /\ IF hasBody
         THEN /\ currentPatient' =
                   [ id |-> generatePatientID(r),
                     name |-> doc.name,
                     age |-> doc.age,
                     gender |-> doc.gender,
                     contact |-> doc.contact,
                     emergencyContact |-> doc.emergencyContact,
                     medicalConditions |-> doc.medicalConditions,
                     registrationTime |-> now ]
              /\ patientRegistered' = TRUE
         ELSE UNCHANGED << currentPatient, patientRegistered >>
    /\ pc' = FromSense(now)
    /\ UNCHANGED << dashboard, sensorModule, sensorEnv, net, sdCard,
                    now, sdCardReady, sim800Ready, bmp180Ready, currentVitals,
                    lastVitalUpdate, lastSensorRead, lastDataSave,
                    lastHeartbeatTime, lastPulseValue, pulseDetected,
                    pulseCount, pulseWindow, wave, phase, lastCalc,
                    totalBeats, ratedBeats,
                    trueTime >>

handlePatientRegistration(hasBody, parses, doc, r) ==
    /\ pc = "client"
    /\ net.server
    /\ requests < MaxRequests
    /\ requests' = requests + 1
    /\ outbox' =
         IF hasBody /\ parses
           THEN << [ kind |-> "response", code |-> 200, success |-> TRUE,
                     patientId |-> generatePatientID(r),
                     message |-> "Patient registered successfully" ] >>
           ELSE << [ kind |-> "response", code |-> 400, success |-> FALSE,
                     message |-> IF hasBody THEN "Invalid JSON"
                                            ELSE "No data received" ] >>
    /\ IF hasBody /\ parses
         THEN /\ currentPatient' =
                   [ id |-> generatePatientID(r),
                     name |-> doc.name,
                     age |-> doc.age,
                     gender |-> doc.gender,
                     contact |-> doc.contact,
                     emergencyContact |-> doc.emergencyContact,
                     medicalConditions |-> doc.medicalConditions,
                     registrationTime |-> now ]
              /\ patientRegistered' = TRUE
         ELSE UNCHANGED << currentPatient, patientRegistered >>
    /\ pc' = FromSense(now)
    /\ UNCHANGED << dashboard, sensorModule, sensorEnv, net, sdCard,
                    now, sdCardReady, sim800Ready, bmp180Ready, currentVitals,
                    lastVitalUpdate, lastSensorRead, lastDataSave,
                    lastHeartbeatTime, lastPulseValue, pulseDetected,
                    pulseCount, pulseWindow, wave, phase, lastCalc,
                    totalBeats, ratedBeats,
                    trueTime >>

(* saveDataToSD(): one row appended to the patient's file, after the       *)
(* header when the file is empty.  opens is whether SD.open succeeds.      *)
CsvHeader ==
    << "timestamp", "heartRate", "systolicBP", "diastolicBP", "spO2",
       "temperature", "ecgValue", "pressure", "status" >>

CsvRow(v) ==
    << ToString(v.timestamp), ToString(v.heartRate), ToString(v.systolicBP),
       ToString(v.diastolicBP), ToString(v.spO2), ToString(v.temperature),
       ToString(v.ecgValue), ToString(v.pressure), v.status >>

CsvFileName ==
    "/vitalcare/" \o currentPatient.id \o "_"
      \o ToString(currentPatient.registrationTime \div 1000) \o ".csv"

FileLines(card, name) == IF name \in DOMAIN card THEN card[name] ELSE << >>

(* a variant that writes the header at every call *)
saveDataToSD_HeaderAlways(opens) ==
    IF ~sdCardReady \/ ~opens THEN sdCard
    ELSE LET old == FileLines(sdCard, CsvFileName)
         IN  [ f \in DOMAIN sdCard \cup { CsvFileName } |->
                 IF f = CsvFileName
                   THEN old \o << CsvHeader, CsvRow(currentVitals) >>
                   ELSE sdCard[f] ]

saveDataToSD(opens) ==
    IF ~sdCardReady \/ ~opens THEN sdCard
    ELSE LET old == FileLines(sdCard, CsvFileName)
             header == IF Len(old) = 0 THEN << CsvHeader >> ELSE << >>
         IN  [ f \in DOMAIN sdCard \cup { CsvFileName } |->
                 IF f = CsvFileName
                   THEN old \o header \o << CsvRow(currentVitals) >>
                   ELSE sdCard[f] ]

(* a variant of the SD save block without the test of patientRegistered *)
SaveStep_AnyPatient(opens) ==
    /\ pc = "save"
    /\ sdCard' = IF sdCardReady THEN saveDataToSD(opens) ELSE sdCard
    /\ lastDataSave' = now
    /\ trueTime' = [trueTime EXCEPT !.lastDataSave = trueTime.uptime]
    /\ pc' = "idle"
    /\ outbox' = << >>
    /\ UNCHANGED << dashboard, sensorModule, sensorEnv, net,
                    now, patientRegistered, sdCardReady, sim800Ready,
                    bmp180Ready, currentPatient, currentVitals,
                    lastVitalUpdate, lastSensorRead, lastHeartbeatTime,
                    lastPulseValue, pulseDetected, pulseCount, pulseWindow,
                    wave, phase, requests, lastCalc, totalBeats, ratedBeats >>

(* lines 223-230: the SD save block *)
SaveStep(opens) ==
    /\ pc = "save"
    /\ sdCard' = IF patientRegistered /\ sdCardReady THEN saveDataToSD(opens)
                                                     ELSE sdCard
    /\ lastDataSave' = now
    /\ trueTime' = [trueTime EXCEPT !.lastDataSave = trueTime.uptime]
    /\ pc' = "idle"
    /\ outbox' = << >>
    /\ UNCHANGED << dashboard, sensorModule, sensorEnv, net,
                    now, patientRegistered, sdCardReady, sim800Ready,
                    bmp180Ready, currentPatient, currentVitals,
                    lastVitalUpdate, lastSensorRead, lastHeartbeatTime,
                    lastPulseValue, pulseDetected, pulseCount, pulseWindow,
                    wave, phase, requests, lastCalc, totalBeats, ratedBeats >>

(* handleGetVitalSigns(), run by server.handleClient() for GET /api/vitals *)
handleGetVitalSigns ==
    /\ pc = "client"
    /\ net.server
    /\ requests < MaxRequests + MaxPolls
    /\ requests' = requests + 1
    /\ outbox' = << [ kind |-> "response", code |-> 200,
                      doc |-> [currentVitals EXCEPT
                                 !.timestamp = formatTimestamp(@)] ] >>
    /\ pc' = FromSense(now)
    /\ UNCHANGED << dashboard, sensorModule, sensorEnv, net, sdCard,
                    now, patientRegistered, sdCardReady, sim800Ready,
                    bmp180Ready, currentPatient, currentVitals,
                    lastVitalUpdate, lastSensorRead, lastDataSave,
                    lastHeartbeatTime, lastPulseValue, pulseDetected,
                    pulseCount, pulseWindow, wave, phase, lastCalc,
                    totalBeats, ratedBeats,
                    trueTime >>

(* handleWebSocketEvent(WStype_CONNECTED), run by webSocket.loop(): the    *)
(* new client gets the init message                                        *)
MaxClients == 1

handleWebSocketConnected ==
    /\ pc = "client"
    /\ net.webSocket
    /\ net.clients < MaxClients
    /\ net' = [net EXCEPT !.clients = @ + 1]
    /\ outbox' =
         << IF patientRegistered
              THEN [ kind |-> "init", type |-> "init",
                     patientRegistered |-> TRUE,
                     patient |-> [ name |-> currentPatient.name,
                                   age |-> currentPatient.age,
                                   gender |-> currentPatient.gender ] ]
              ELSE [ kind |-> "init", type |-> "init",
                     patientRegistered |-> FALSE ] >>
    /\ pc' = FromSense(now)
    /\ UNCHANGED << dashboard, sensorModule, sensorEnv, sdCard,
                    now, patientRegistered, sdCardReady, sim800Ready,
                    bmp180Ready, currentPatient, currentVitals,
                    lastVitalUpdate, lastSensorRead, lastDataSave,
                    lastHeartbeatTime, lastPulseValue, pulseDetected,
                    pulseCount, pulseWindow, wave, phase, requests, lastCalc,
                    totalBeats, ratedBeats,
                    trueTime >>

---------------------------------------------------------------------------
(* Two counting windows: no client, and a pulse that may beat only at the  *)
(* reads that fall on a multiple of SlotMs, so that windows with the same  *)
(* number of beats at different times are compared.                        *)
SlotMs == 2500
MaxWindowsTime == 32300

SlotSamples ==
    IF now % SlotMs = 0 THEN { pulseThreshold - 1, pulseThreshold + 1 }
                        ELSE { pulseThreshold - 1 }

SenseSlot ==
    /\ \E pulseValue \in SlotSamples :
          SenseStep(pulseValue, FALSE, FALSE, 1800, 0, 0, 0, 0, 0)
    /\ UNCHANGED << wave, phase >>

IdleWindows == now < MaxWindowsTime /\ IdleDelay

SaveQuiet == SaveStep(TRUE)

NextWindows ==
    NoRequest \/ SenseSlot \/ UpdateQuiet \/ SaveQuiet \/ IdleWindows

SpecWindows == InitPulse /\ [][NextWindows]_vars

---------------------------------------------------------------------------
(* The firmware with a client: the pulse input follows a waveform chosen   *)
(* at start-up (high for wave.high reads, then low for wave.low reads),    *)
(* the other inputs are drawn at every read.                               *)
Waves == { Flat, [ high |-> 1, low |-> 1 ], [ high |-> 2, low |-> 8 ] }

WaveSample ==
    IF phase < wave.high THEN pulseThreshold + 1 ELSE pulseThreshold - 1

(* random(lo, hi) returns lo..hi-1; the model draws the two ends           *)
Random(lo, hi) == { lo, hi - 1 }

(* the lead-off pins and the ECG sample, the BMP180 temperature in tenths  *)
(* of a degree Celsius (37.0 and 39.5)                                     *)
EcgInputs ==
    { [ loPlus |-> FALSE, loMinus |-> FALSE, ecg |-> 1800 ],
      [ loPlus |-> TRUE,  loMinus |-> FALSE, ecg |-> 1800 ],
      [ loPlus |-> FALSE, loMinus |-> TRUE,  ecg |-> 1800 ],
      [ loPlus |-> FALSE, loMinus |-> FALSE, ecg |-> 0 ] }

BmpCelsius == { 370, 395 }

Init ==
    \E bmp \in BOOLEAN, sim \in BOOLEAN, w \in Waves :
        Setup(TRUE, bmp, TRUE, sim) /\ wave = w

(* a registration request reaches the loop in an iteration in which the    *)
(* UI update is due                                                        *)
Register ==
    /\ VitalDue(now)
    /\ \E hasBody \in BOOLEAN, parses \in BOOLEAN, doc \in Docs :
          handlePatientRegistration(hasBody, parses, doc, 100)

Sense ==
    /\ \E e \in EcgInputs, rS \in Random(-2, 3) :
          \/ /\ bmp180Ready
             /\ \E bmpC \in BmpCelsius :
                  SenseStep(WaveSample, e.loPlus, e.loMinus, e.ecg, bmpC,
                            101325, 0, 0, rS)
          \/ /\ ~bmp180Ready
             /\ \E rT \in Random(-10, 11) :
                  SenseStep(WaveSample, e.loPlus, e.loMinus, e.ecg, 0, 0,
                            rT, 0, rS)
    /\ phase' = (phase + 1) % (wave.high + wave.low)
    /\ wave' = wave

Update == \E r1 \in Random(-5, 6) : UpdateStep(r1, 0)

Idle == now < MaxTime /\ IdleDelay

Next == NoRequest \/ Register \/ Sense \/ Update \/ Idle

Spec == Init /\ [][Next]_vars

---------------------------------------------------------------------------
(* The firmware with a patient whose pulse is normal: the pulse sensor     *)
(* shows one beat every BeatPeriod milliseconds (66 beats per minute),     *)
(* BeatWidth milliseconds wide; the leads are on, the BMP180 reads 37.0    *)
(* degrees Celsius; the SIM800L answered in setup() and there is no SD     *)
(* card.  A patient with an emergency contact is registered in the first   *)
(* iteration of loop(), while the heart rate is still 0.  loop() never     *)
(* stops, so the run is followed for ever, with the clock wrapping         *)
(* (ClockWrap is a whole number of beats).                                 *)
BeatPeriod == 910
BeatWidth == 200

PulseAt(t) ==
    IF t % BeatPeriod < BeatWidth THEN pulseThreshold + 1
                                  ELSE pulseThreshold - 1

InitClear == Setup(TRUE, TRUE, FALSE, TRUE) /\ wave = Flat

RegisterClear ==
    /\ ~patientRegistered
    /\ \E doc \in { d \in Docs : d.emergencyContact # "" } :
          handlePatientRegistration(TRUE, TRUE, doc, 100)

SenseClear ==
    /\ SenseStep(PulseAt(now), FALSE, FALSE, 1800, 370, 101325, 0, 0, 0)
    /\ UNCHANGED << wave, phase >>

NoRequestClear == patientRegistered /\ NoRequest

NextClear ==
    \/ NoRequestClear
    \/ RegisterClear
    \/ SenseClear
    \/ UpdateQuiet
    \/ SaveQuiet
    \/ IdleDelay

SpecClear == InitClear /\ [][NextClear]_vars /\ WF_vars(NextClear)

(* Claims about the clearing of alerts (SpecClear)                         *)

\* C24: with a registered patient whose pulse sensor shows a pulse at a
\* normal rate, and temperature and SpO2 within their bands, the status
\* eventually becomes Normal, also when SMS alerting is configured and an
\* alert was active before.
C24_AlertsClear ==
    patientRegistered ~> currentVitals.status = "Normal"

---------------------------------------------------------------------------
(* The firmware at the bedside, followed up to the first SD save: every    *)
(* start-up outcome, a steady pulse of one beat in eight reads, leads on, a *)
(* client that may connect, register a patient before the first UI update  *)
(* and poll /api/vitals.                                                   *)
MaxCareTime == 30000

Steady == [ high |-> 2, low |-> 6 ]

InitCare ==
    \E spiffsOk \in BOOLEAN, bmp \in BOOLEAN, sd \in BOOLEAN,
       sim \in BOOLEAN :
        Setup(spiffsOk, bmp, sd, sim) /\ wave = Steady

RegisterCare ==
    /\ lastVitalUpdate = 0
    /\ \E doc \in Docs : handlePatientRegistration(TRUE, TRUE, doc, 100)

SenseCare ==
    /\ \/ /\ bmp180Ready
          /\ \E bmpC \in BmpCelsius :
               SenseStep(WaveSample, FALSE, FALSE, 1800, bmpC, 101325, 0, 0, 0)
       \/ /\ ~bmp180Ready
          /\ SenseStep(WaveSample, FALSE, FALSE, 1800, 0, 0, 0, 0, 0)
    /\ phase' = (phase + 1) % (wave.high + wave.low)
    /\ wave' = wave

UpdateCare == UpdateStep(0, 0)

SaveCare == \E opens \in BOOLEAN : SaveStep(opens)

IdleCare == now < MaxCareTime /\ IdleDelay

NextCare ==
    \/ NoRequest
    \/ RegisterCare
    \/ handleGetVitalSigns
    \/ handleWebSocketConnected
    \/ SenseCare
    \/ UpdateCare
    \/ SaveCare
    \/ IdleCare

SpecCare == InitCare /\ [][NextCare]_vars

---------------------------------------------------------------------------
(* The firmware across the wrap of millis(): the run is followed for       *)
(* MaxWrapTime milliseconds after boot, through one wrap of the clock.     *)
(* The pulse is steady until the heart stops, which it may do around the   *)
(* times StopTimes; the SD card may be absent and an open of the file may  *)
(* fail; a patient may be registered before the first UI update.           *)
MaxWrapTime == 80000
StopTimes == { 8000, 40000 }
StopBand == 200

InitWrap ==
    \E sd \in BOOLEAN, sim \in BOOLEAN :
        Setup(TRUE, TRUE, sd, sim) /\ wave = Steady

RegisterWrap ==
    /\ trueTime.lastVitalUpdate = 0
    /\ \E doc \in Docs : handlePatientRegistration(TRUE, TRUE, doc, 100)

HeartMayStop ==
    \E t \in StopTimes :
        trueTime.uptime >= t /\ trueTime.uptime < t + StopBand

SenseWrap ==
    /\ SenseStep(WaveSample, FALSE, FALSE, 1800, 370, 101325, 0, 0, 0)
    /\ \/ /\ wave' = wave
          /\ phase' = (phase + 1) % (wave.high + wave.low)
       \/ /\ HeartMayStop
          /\ wave = Steady
          /\ wave' = Flat
          /\ phase' = 0

SaveWrap == \E opens \in BOOLEAN : SaveStep(opens)

IdleWrap == trueTime.uptime < MaxWrapTime /\ IdleDelay

NextWrap ==
    \/ NoRequest
    \/ RegisterWrap
    \/ SenseWrap
    \/ UpdateQuiet
    \/ SaveWrap
    \/ IdleWrap

SpecWrap == InitWrap /\ [][NextWrap]_vars

---------------------------------------------------------------------------
(* The sensor module: readAD8232, readPulseSensor, readBMP180,             *)
(* calculateHeartRates, and its loop()                                     *)

(* the value of ecgHeartRate in thousandths of a beat per minute *)
EcgRate(r) == IF r.beats = 0 THEN 0 ELSE (r.beats * 60000 * RATE_SCALE) \div r.ms

(* 10 * 60000 / ecgHeartRate, for a rate that is not zero *)
TenBeatPeriod(r) == IF r.beats = BPM_BEATS THEN r.ms
                                           ELSE (BPM_BEATS * r.ms) \div r.beats

(* While ecgHeartRate is 0 the division gives infinity and the conversion  *)
(* of the time difference to unsigned long is undefined: the build gives   *)
(* 0 or the largest value (here the largest integer the model holds).      *)
UbConversions == { 0, 2147483647 }

readAD8232(m, loPlus, loMinus, analog, ub) ==
    IF loPlus = 1 \/ loMinus = 1
      THEN [m EXCEPT !.leadsConnected = FALSE, !.ecgSignal = 0]
      ELSE
        LET beat == /\ analog > ecgThreshold
                    /\ SmElapsed(m.millis, m.ecgBeatTime) > REFRACTORY_MS
            count == m.ecgBeatCount + 1
            timeDiff == IF m.ecgHeartRate.beats = 0
                          THEN ub
                          ELSE TenBeatPeriod(m.ecgHeartRate)
            rate == [ beats |-> count, ms |-> timeDiff ]
            m1 == [m EXCEPT !.leadsConnected = TRUE, !.ecgSignal = analog]
        IN  IF ~beat THEN m1
            ELSE IF count < BPM_BEATS
              THEN [m1 EXCEPT !.ecgBeatCount = count, !.ecgBeatTime = m.millis]
            ELSE IF timeDiff > 0
              THEN [m1 EXCEPT !.ecgBeatCount = 0, !.ecgBeatTime = m.millis,
                              !.ecgHeartRate = rate,
                              !.currentSensorData.heartRateECG = EcgRate(rate)]
            ELSE [m1 EXCEPT !.ecgBeatCount = 0, !.ecgBeatTime = m.millis]

(* a variant that re-arms the detector as soon as the signal is below     *)
(* the threshold, without the margin                                       *)
readPulseSensor_NoMargin(m, analog) ==
    LET beat == /\ analog > threshold
                /\ ~m.pulseDetected
                /\ SmElapsed(m.millis, m.lastBeat) > REFRACTORY_MS
        count == m.beatCount + 1
        timeDiff == SmElapsed(m.millis, m.beatStartTime)
        rated == count >= BPM_BEATS \/ timeDiff > BPM_PERIOD
        bpm == (count * 60000) \div timeDiff
        m1 == [m EXCEPT !.pulseSignal = analog]
        m2 == IF ~beat THEN m1
              ELSE IF ~rated
                THEN [m1 EXCEPT !.pulseDetected = TRUE, !.lastBeat = m.millis,
                                !.beatCount = count]
              ELSE IF timeDiff > 0 /\ count > 0
                THEN [m1 EXCEPT !.pulseDetected = TRUE, !.lastBeat = m.millis,
                                !.BPM = bpm,
                                !.currentSensorData.heartRatePulse =
                                    bpm * RATE_SCALE,
                                !.beatCount = 0, !.beatStartTime = m.millis]
              ELSE [m1 EXCEPT !.pulseDetected = TRUE, !.lastBeat = m.millis,
                              !.beatCount = 0, !.beatStartTime = m.millis]
    IN  IF analog < threshold
          THEN [m2 EXCEPT !.pulseDetected = FALSE]
          ELSE m2

readPulseSensor(m, analog) ==
    LET beat == /\ analog > threshold
                /\ ~m.pulseDetected
                /\ SmElapsed(m.millis, m.lastBeat) > REFRACTORY_MS
        count == m.beatCount + 1
        timeDiff == SmElapsed(m.millis, m.beatStartTime)
        rated == count >= BPM_BEATS \/ timeDiff > BPM_PERIOD
        bpm == (count * 60000) \div timeDiff
        m1 == [m EXCEPT !.pulseSignal = analog]
        m2 == IF ~beat THEN m1
              ELSE IF ~rated
                THEN [m1 EXCEPT !.pulseDetected = TRUE, !.lastBeat = m.millis,
                                !.beatCount = count]
              ELSE IF timeDiff > 0 /\ count > 0
                THEN [m1 EXCEPT !.pulseDetected = TRUE, !.lastBeat = m.millis,
                                !.BPM = bpm,
                                !.currentSensorData.heartRatePulse =
                                    bpm * RATE_SCALE,
                                !.beatCount = 0, !.beatStartTime = m.millis]
              ELSE [m1 EXCEPT !.pulseDetected = TRUE, !.lastBeat = m.millis,
                              !.beatCount = 0, !.beatStartTime = m.millis]
    IN  IF analog < threshold - REARM_MARGIN
          THEN [m2 EXCEPT !.pulseDetected = FALSE]
          ELSE m2

(* temperature in tenths of a degree, pressure in Pa (hundredths of mbar) *)
readBMP180(m, tempC, pa) ==
    IF m.currentSensorData.sensorsConnected
      THEN [m EXCEPT !.currentSensorData.temperature = (tempC * 9) \div 5 + 320,
                     !.currentSensorData.pressure = pa]
      ELSE m

InRange(rate) == rate > RATE_MIN * RATE_SCALE /\ rate < RATE_MAX * RATE_SCALE

calculateHeartRates(m) ==
    LET d == m.currentSensorData
        source == IF m.leadsConnected /\ InRange(d.heartRateECG)
                    THEN d.heartRateECG
                    ELSE IF InRange(d.heartRatePulse) THEN d.heartRatePulse
                    ELSE 0
        finalHeartRate == IF m.lastHeartRate > 0
                            THEN (source + m.lastHeartRate) \div 2
                            ELSE source
    IN  [m EXCEPT !.lastHeartRate = finalHeartRate,
                  !.currentSensorData.heartRateECG = finalHeartRate,
                  !.currentSensorData.heartRatePulse = finalHeartRate]

(* setup(): delay(1000), setupSensors, setupWiFi (up to 30 waits of one    *)
(* second), then the struct is overwritten (sensorsConnected = false) and  *)
(* the two beat clocks start at millis().                                  *)
SensorSetup(attempts) ==
    LET t == SM_SETUP_DELAY + attempts * WIFI_ATTEMPT_DELAY
    IN  [SensorGlobals EXCEPT
           !.millis = t, !.pc = "sense",
           !.wifiConnected = (attempts < WIFI_ATTEMPTS),
           !.currentSensorData.timestamp = t,
           !.beatStartTime = t, !.ecgBeatTime = t]

SmSenseDue(m) == SmElapsed(m.millis, m.lastSensorRead) >= SM_SENSOR_READ_INTERVAL
SmSendDue(m) ==
    SmElapsed(m.millis, m.lastDataTransmission) >= DATA_SEND_INTERVAL

(* blinkHeartbeat(): the LED is due when a rate is shown and more than     *)
(* 60000 / average milliseconds have passed since the last blink           *)
BlinkDue(m) ==
    LET d == m.currentSensorData
    IN  /\ d.heartRatePulse > 0 \/ d.heartRateECG > 0
        /\ SmElapsed(m.millis, m.lastBlink) >
             (60000 * RATE_SCALE * 2) \div (d.heartRatePulse + d.heartRateECG)

SmFromSend(m)  == IF BlinkDue(m) THEN "blink" ELSE "idle"
SmFromSense(m) == IF SmSendDue(m) THEN "send" ELSE SmFromSend(m)
SmFromIdle(m)  == IF SmSenseDue(m) THEN "sense" ELSE SmFromSense(m)

FirmwareUnchanged ==
    UNCHANGED << now, pc, patientRegistered, sdCardReady, sim800Ready,
                 bmp180Ready, currentPatient, currentVitals, lastVitalUpdate,
                 lastSensorRead, lastDataSave, lastHeartbeatTime,
                 lastPulseValue, pulseDetected, pulseCount, pulseWindow,
                 wave, phase, requests, net, sdCard, outbox, lastCalc,
                 totalBeats, ratedBeats, trueTime >>

(* loop() lines 124-131: one pass over the sensors *)
SensorPass(loPlus, loMinus, ecgAnalog, ub, pulseAnalog, tempC, pa) ==
    /\ sensorModule.pc = "sense"
    /\ LET m1 == readAD8232(sensorModule, loPlus, loMinus, ecgAnalog, ub)
           m2 == readPulseSensor(m1, pulseAnalog)
           m3 == readBMP180(m2, tempC, pa)
           m4 == calculateHeartRates(m3)
           m5 == [m4 EXCEPT !.lastSensorRead = m4.millis]
       IN  sensorModule' = [m5 EXCEPT !.pc = SmFromSense(m5)]
    /\ FirmwareUnchanged
    /\ UNCHANGED dashboard

(* loop() lines 134-138: sendSensorData *)
SensorSend ==
    /\ sensorModule.pc = "send"
    /\ LET m1 == [sensorModule EXCEPT
                    !.lastDataTransmission = sensorModule.millis]
       IN  sensorModule' = [m1 EXCEPT !.pc = SmFromSend(m1)]
    /\ UNCHANGED sensorEnv
    /\ FirmwareUnchanged
    /\ UNCHANGED dashboard

(* loop() line 141: blinkHeartbeat with its delay(100) *)
SensorBlink ==
    /\ sensorModule.pc = "blink"
    /\ sensorModule' = [sensorModule EXCEPT
                          !.millis = (@ + BLINK_DELAY) % SmClockWrap,
                          !.lastBlink = (sensorModule.millis + BLINK_DELAY)
                                          % SmClockWrap,
                          !.pc = "idle"]
    /\ UNCHANGED sensorEnv
    /\ FirmwareUnchanged
    /\ UNCHANGED dashboard

(* loop() line 144: delay(10); iterations in which nothing is due are      *)
(* taken together                                                          *)
SmAt(k) ==
    [sensorModule EXCEPT !.millis = (@ + k * LOOP_IDLE_DELAY) % SmClockWrap]

SmIdleIterations ==
    CHOOSE k \in 1..(SM_SENSOR_READ_INTERVAL \div LOOP_IDLE_DELAY) :
        /\ SmFromIdle(SmAt(k)) # "idle"
        /\ \A j \in 1..(k - 1) : SmFromIdle(SmAt(j)) = "idle"

SensorIdleDelay ==
    /\ sensorModule.pc = "idle"
    /\ LET m1 == SmAt(SmIdleIterations)
       IN  sensorModule' = [m1 EXCEPT !.pc = SmFromIdle(m1)]
    /\ UNCHANGED sensorEnv
    /\ FirmwareUnchanged
    /\ UNCHANGED dashboard

(* Environment of the sensor module: the pulse sensor gives a repeating    *)
(* pattern of samples, one per pass; the ECG front end gives any of its    *)
(* readings at each pass.                                                  *)
MaxSensorTime == 12000

PulsePatterns ==
    { << threshold + 1, threshold - REARM_MARGIN - 1 >>,
      << threshold + 1, threshold - REARM_MARGIN >>,
      << threshold, threshold - REARM_MARGIN - 1, threshold + 1 >>,
      << threshold + 1, threshold + 1, threshold - REARM_MARGIN - 1,
         threshold - REARM_MARGIN - 1 >> }

SensorEcgInputs ==
    { [ loPlus |-> 1, loMinus |-> 0, analog |-> 0 ],
      [ loPlus |-> 0, loMinus |-> 1, analog |-> 0 ],
      [ loPlus |-> 0, loMinus |-> 0, analog |-> ecgThreshold ],
      [ loPlus |-> 0, loMinus |-> 0, analog |-> ecgThreshold + 1 ] }

SensorSample == sensorEnv.pattern[sensorEnv.step + 1]

FirmwareGlobals ==
    /\ now = 0
    /\ pc = "off"
    /\ patientRegistered = FALSE
    /\ sdCardReady = FALSE
    /\ sim800Ready = FALSE
    /\ bmp180Ready = FALSE
    /\ currentPatient = NoPatient
    /\ currentVitals = ZeroVitals
    /\ lastVitalUpdate = 0
    /\ lastSensorRead = 0
    /\ lastDataSave = 0
    /\ lastHeartbeatTime = 0
    /\ lastPulseValue = 0
    /\ pulseDetected = FALSE
    /\ pulseCount = 0
    /\ pulseWindow = 0
    /\ wave = Flat
    /\ phase = 0
    /\ requests = 0
    /\ net = [ ap |-> FALSE, server |-> FALSE, webSocket |-> FALSE,
               clients |-> 0 ]
    /\ sdCard = << >>
    /\ outbox = << >>
    /\ lastCalc = [ time |-> 0, closed |-> FALSE, beats |-> 0,
                    windows |-> << >> ]
    /\ totalBeats = 0
    /\ ratedBeats = 0
    /\ trueTime = TrueTimeAsRead

InitSensor ==
    /\ FirmwareGlobals
    /\ dashboard = NoDashboard
    /\ \E attempts \in { 1, WIFI_ATTEMPTS } :
          sensorModule = SensorSetup(attempts)
    /\ \E p \in PulsePatterns : sensorEnv = [ pattern |-> p, step |-> 0 ]

SensorSense ==
    /\ \E e \in SensorEcgInputs, ub \in UbConversions :
          SensorPass(e.loPlus, e.loMinus, e.analog, ub, SensorSample,
                     370, 101325)
    /\ sensorEnv' = [sensorEnv EXCEPT
                       !.step = (@ + 1) % Len(sensorEnv.pattern)]

(* the run is followed for MaxSensorTime milliseconds after setup() *)
SensorIdle ==
    /\ SmElapsed(sensorModule.millis, sensorModule.currentSensorData.timestamp)
         < MaxSensorTime
    /\ SensorIdleDelay

NextSensor == SensorSense \/ SensorSend \/ SensorBlink \/ SensorIdle

SpecSensor == InitSensor /\ [][NextSensor]_vars

(* The three beat detectors together: a run of the firmware with free     *)
(* pulse samples, or a run of the sensor module                           *)
InitDetectors == InitPulse \/ InitSensor

NextDetectors == NextPulse \/ NextSensor

SpecDetectors == InitDetectors /\ [][NextDetectors]_vars

---------------------------------------------------------------------------
(* The sensor module when the heart stops: the pulse sensor gives one beat *)
(* per second for QuietFrom milliseconds after setup() and from then on    *)
(* stays below its threshold; the ECG sample is never above ecgThreshold,  *)
(* or a lead is off.  loop() never stops, so the run is followed for ever: *)
(* the clock wraps, and the run closes into a cycle (SmClockWrap is a whole  *)
(* number of the 1010 ms that the loop takes from one LED blink to the     *)
(* next at the rate the pulse gives).                                      *)
QuietFrom == 10500

(* one beat in two passes *)
Heartbeat == << threshold + 1, threshold - REARM_MARGIN - 1 >>

SinceSetup ==
    SmElapsed(sensorModule.millis, sensorModule.currentSensorData.timestamp)

Quiet == sensorEnv.quiet \/ SinceSetup >= QuietFrom

QuietEcgInputs == { e \in SensorEcgInputs : e.analog <= ecgThreshold }

InitQuiet ==
    /\ FirmwareGlobals
    /\ dashboard = NoDashboard
    /\ sensorModule = SensorSetup(1)
    /\ sensorEnv = [ pattern |-> Heartbeat, step |-> 0, quiet |-> FALSE ]

QuietSense ==
    /\ \E e \in QuietEcgInputs, ub \in UbConversions :
          SensorPass(e.loPlus, e.loMinus, e.analog, ub,
                     IF Quiet THEN threshold - REARM_MARGIN - 1
                              ELSE SensorSample,
                     370, 101325)
    /\ sensorEnv' =
         IF Quiet THEN [sensorEnv EXCEPT !.quiet = TRUE]
         ELSE [sensorEnv EXCEPT !.step = (@ + 1) % Len(sensorEnv.pattern)]

NextQuiet == QuietSense \/ SensorSend \/ SensorBlink \/ SensorIdleDelay

SpecQuiet == InitQuiet /\ [][NextQuiet]_vars /\ WF_vars(NextQuiet)

(* Claims about the sensor module when the heart stops (SpecQuiet)         *)

\* C20: once no beat is detected on either channel any more (the pulse
\* signal stays below the threshold, the ECG sample is not above
\* ecgThreshold or a lead is off), the heart rate the sensor module reports
\* (heartRateECG and heartRatePulse after calculateHeartRates) eventually
\* becomes 0 and stays 0.
C20_StaleRateReachesZero ==
    sensorEnv.quiet ~>
      [](/\ sensorModule.currentSensorData.heartRateECG = 0
         /\ sensorModule.currentSensorData.heartRatePulse = 0)

---------------------------------------------------------------------------
(* Claims on the beat detectors of both boards                             *)

(* C4: a sample that is not above the detector's threshold counts no beat: *)
(* a readSensors call with such a pulse sample leaves pulseCount and       *)
(* lastHeartbeatTime as they were, a readPulseSensor call with such a      *)
(* sample leaves beatCount and lastBeat as they were, and a readAD8232     *)
(* call with such a sample (or with a lead off) leaves ecgBeatCount and    *)
(* ecgBeatTime as they were.                                               *)
C4_FirmwareRead ==
    (lastSensorRead' # lastSensorRead /\ lastPulseValue' <= pulseThreshold)
      => /\ pulseCount' = pulseCount
         /\ lastHeartbeatTime' = lastHeartbeatTime
         /\ totalBeats' = totalBeats

C4_SensorPass ==
    sensorModule'.lastSensorRead # sensorModule.lastSensorRead
      => /\ sensorModule'.pulseSignal <= threshold
              => /\ sensorModule'.beatCount = sensorModule.beatCount
                 /\ sensorModule'.lastBeat = sensorModule.lastBeat
         /\ sensorModule'.ecgSignal <= ecgThreshold
              => /\ sensorModule'.ecgBeatCount = sensorModule.ecgBeatCount
                 /\ sensorModule'.ecgBeatTime = sensorModule.ecgBeatTime

C4_NoBeatAtOrBelowThreshold == [][C4_FirmwareRead /\ C4_SensorPass]_vars

(* a pass of the sensor module that read both signals at or below their   *)
(* thresholds while beats of both detectors were already counted          *)
C4_Witness ==
    /\ sensorModule.lastSensorRead = sensorModule.millis
    /\ sensorModule.leadsConnected
    /\ sensorModule.ecgSignal = ecgThreshold
    /\ sensorModule.pulseSignal = threshold
    /\ sensorModule.ecgBeatCount > 0
    /\ sensorModule.beatCount > 0

(* C5: after every pass of the sensor module made with a lead off, the ECG *)
(* heart rate it reports is 0.                                             *)
C5_LeadOffForcesZero ==
    (sensorModule.pc # "off" /\ sensorModule.lastSensorRead # 0
       /\ ~sensorModule.leadsConnected)
      => sensorModule.currentSensorData.heartRateECG = 0

---------------------------------------------------------------------------
(* Claims on the pulse detector and the rate aggregator (SpecPulse)        *)


TimedOutAtLastCalc ==
    /\ lastCalc.time # 0
    /\ lastCalc.time >= lastHeartbeatTime
    /\ Elapsed(lastCalc.time, lastHeartbeatTime) > HEARTBEAT_TIMEOUT

\* C2: when no beat has been counted for longer than HEARTBEAT_TIMEOUT at a
\* calculateHeartRate call, the heart rate is exactly 0 after that call,
\* also when the call closes a window whose beat count is non-zero.
C2_StaleRateIsZero == TimedOutAtLastCalc => currentVitals.heartRate = 0

C2_Witness ==
    /\ TimedOutAtLastCalc
    /\ lastCalc.closed
    /\ lastCalc.beats > 0
    /\ currentVitals.heartRate = 0

\* C3: two beats counted by readSensors are never less than the refractory
\* interval (300 ms) apart.
C3_RefractoryBetweenBeats ==
    [][ (totalBeats' = totalBeats + 1 /\ totalBeats > 0)
          => Elapsed(lastHeartbeatTime', lastHeartbeatTime) >= REFRACTORY_MS ]_vars

\* C9: the aggregated heart rate is within 0..200 in every state, for any
\* sequence of samples and any beat count.
C9_HeartRateClamped ==
    currentVitals.heartRate >= 0 /\ currentVitals.heartRate <= HEART_RATE_CEILING

C9_Witness ==
    /\ lastCalc.closed
    /\ (lastCalc.beats * 60) \div 15 > HEART_RATE_CEILING
    /\ currentVitals.heartRate = HEART_RATE_CEILING

\* C10: a calculateHeartRate call that closes the window sets the rate to
\* pulseCount * 60 / 15 (then the timeout and the clamp apply), resets
\* pulseCount to 0 and starts the next window at the current time; a call
\* before the window has elapsed leaves pulseCount and pulseWindow unchanged;
\* every counted beat is in the open window or in exactly one closed one.
C10_Rate(count, t) ==
    IF Elapsed(t, lastHeartbeatTime) > HEARTBEAT_TIMEOUT THEN 0
    ELSE IF (count * 60) \div 15 > HEART_RATE_CEILING THEN HEART_RATE_CEILING
    ELSE (count * 60) \div 15

C10_CallEffect ==
    pc = "update" =>
        IF Elapsed(now, pulseWindow) >= PULSE_WINDOW_MS
          THEN /\ currentVitals'.heartRate = C10_Rate(pulseCount, now)
               /\ pulseCount' = 0
               /\ pulseWindow' = now
          ELSE /\ pulseCount' = pulseCount
               /\ pulseWindow' = pulseWindow

C10_NonOverlappingWindows ==
    /\ [][C10_CallEffect]_vars
    /\ [](totalBeats = ratedBeats + pulseCount)

C10_Witness ==
    /\ lastCalc.closed
    /\ lastCalc.beats > 0
    /\ ratedBeats = lastCalc.beats
    /\ currentVitals.heartRate = (lastCalc.beats * 60) \div 15
    /\ pulseCount > 0

---------------------------------------------------------------------------
(* Claims on two counting windows (SpecWindows)                            *)

\* C11 as stated: two windows that count the same number of beats get the
\* same rate when they close, whenever in the window the beats fell and
\* whatever the earlier windows were.
C11_SameBeatsSameRate ==
    \A i, j \in 1..Len(lastCalc.windows) :
        lastCalc.windows[i].beats = lastCalc.windows[j].beats
          => lastCalc.windows[i].rate = lastCalc.windows[j].rate

\* C11 amended: two windows that count the same number of beats and agree
\* on whether the last beat is older than HEARTBEAT_TIMEOUT at the closing
\* call get the same rate (0 when it is older), whatever the earlier
\* windows were.
C11_SameBeatsSameFreshnessSameRate ==
    \A i, j \in 1..Len(lastCalc.windows) :
        (/\ lastCalc.windows[i].beats = lastCalc.windows[j].beats
         /\ lastCalc.windows[i].stale = lastCalc.windows[j].stale)
          => /\ lastCalc.windows[i].rate = lastCalc.windows[j].rate
             /\ lastCalc.windows[i].stale => lastCalc.windows[i].rate = 0

C11_Witness ==
    /\ Len(lastCalc.windows) = 2
    /\ lastCalc.windows[1].beats = 2
    /\ lastCalc.windows[2].beats = 2
    /\ ~lastCalc.windows[1].stale
    /\ ~lastCalc.windows[2].stale
    /\ lastCalc.windows[1].rate = 8
    /\ lastCalc.windows[2].rate = 8

---------------------------------------------------------------------------
(* Claims on the loop with a client (Spec)                                 *)

\* C1: evaluation, alert delivery and emission never block sampling: the
\* time between two consecutive readSensors executions is at most
\* SENSOR_READ_INTERVAL plus one loop iteration with its 10 ms idle delay.
C1_SamplingNeverBlocked ==
    [][ (lastSensorRead' # lastSensorRead /\ lastSensorRead # 0)
          => Elapsed(lastSensorRead', lastSensorRead)
               <= SENSOR_READ_INTERVAL + LOOP_IDLE_DELAY ]_vars

---------------------------------------------------------------------------
(* Claims on the evaluator (SpecEval)                                      *)

OthersInBand(v) ==
    /\ v.systolicBP >= 800 /\ v.systolicBP <= 1600
    /\ v.spO2 >= 90
    /\ v.temperature >= 950 /\ v.temperature <= 1020

\* C6: a snapshot with heart rate 45 is classified as critical/alert and
\* never as Normal, whatever the other vitals are.
C6_HeartRate45IsAlert ==
    (pc = "evaluated" /\ currentVitals.heartRate = 45)
      => /\ currentVitals.status = "ALERT"
         /\ getHeartRateStatus(currentVitals.heartRate).level = "critical"

C6_Witness ==
    /\ pc = "evaluated"
    /\ currentVitals.heartRate = 45
    /\ OthersInBand(currentVitals)
    /\ currentVitals.status = "ALERT"

\* C7 as stated: every evaluation of a snapshot with heart rate 75 ends
\* with the Normal status.
C7_HeartRate75IsNormal ==
    (pc = "evaluated" /\ currentVitals.heartRate = 75)
      => currentVitals.status = "Normal"

\* C7 amended: a snapshot with heart rate 75 whose systolic pressure, SpO2
\* and temperature are within their bands (80..160 mmHg, >= 90 %,
\* 95..102 F) ends with the Normal status.
C7_HeartRate75InBandIsNormal ==
    (pc = "evaluated" /\ currentVitals.heartRate = 75
       /\ OthersInBand(currentVitals))
      => /\ currentVitals.status = "Normal"
         /\ getHeartRateStatus(currentVitals.heartRate).level = "normal"

C7_Witness ==
    /\ pc = "evaluated"
    /\ currentVitals.heartRate = 75
    /\ currentVitals.temperature = 986
    /\ currentVitals.spO2 = 99
    /\ currentVitals.status = "Normal"

\* C8 as stated: a snapshot with SpO2 85 gets the alert status and a
\* snapshot with SpO2 99 gets the Normal status.
C8_SpO2Classes ==
    pc = "evaluated"
      => /\ currentVitals.spO2 = 85 => currentVitals.status = "ALERT"
         /\ currentVitals.spO2 = 99 => currentVitals.status = "Normal"

\* C8 amended: a snapshot with SpO2 85 gets the alert status (and is
\* Critical for getSpO2Status and an emergency for isEmergency); a snapshot
\* with SpO2 99 is Normal for getSpO2Status and gets the Normal status when
\* heart rate (50..120), systolic pressure and temperature are in band too.
C8_SpO2ClassesInBand ==
    pc = "evaluated"
      => /\ currentVitals.spO2 = 85
              => /\ currentVitals.status = "ALERT"
                 /\ getSpO2Status(currentVitals.spO2).level = "critical"
                 /\ isEmergency(currentVitals)
         /\ currentVitals.spO2 = 99
              => /\ getSpO2Status(currentVitals.spO2).level = "normal"
                 /\ (currentVitals.heartRate >= 50
                       /\ currentVitals.heartRate <= 120
                       /\ OthersInBand(currentVitals))
                      => currentVitals.status = "Normal"

C8_Witness ==
    /\ pc = "evaluated"
    /\ currentVitals.spO2 = 85
    /\ currentVitals.heartRate = 75
    /\ currentVitals.systolicBP = 1200
    /\ currentVitals.temperature = 986
    /\ currentVitals.status = "ALERT"

---------------------------------------------------------------------------
(* Claims about the firmware at the bedside (SpecCare)                     *)

(* the snapshots handed to an observer by the last step: the broadcast of  *)
(* sendVitalSignsToClients and the response of handleGetVitalSigns         *)
Delivered ==
    { outbox[i].doc : i \in { k \in 1..Len(outbox) :
                                outbox[k].kind = "broadcast"
                                \/ (outbox[k].kind = "response"
                                    /\ "doc" \in DOMAIN outbox[k]) } }

\* C12: every snapshot handed to an observer, by the WebSocket broadcast or
\* by GET /api/vitals, carries as status the verdict of checkForAlerts on
\* the heartRate, systolicBP, spO2 and temperature of the same message
\* (stated for a registered patient whose snapshot already has a verdict).
C12_DeliveredStatusIsVerdict ==
    patientRegistered =>
      \A doc \in Delivered :
        doc.status \in { "ALERT", "Normal" }
          => doc.status = checkForAlerts(doc)

(* the broadcasts among the messages of a step *)
Broadcasts(box) == SelectSeq(box, LAMBDA msg : msg.kind = "broadcast")

\* C13: every update cycle of loop() performs exactly one broadcast, of the
\* snapshot it committed and to the clients connected at that moment,
\* whether or not a patient is registered and whether or not a client is
\* connected; no other step broadcasts; the broadcast leaves the set of
\* clients as it was; and a broadcast is at least VITAL_UPDATE_INTERVAL
\* after the previous one (lastVitalUpdate is the time of the previous one).
C13_OneBroadcastPerUpdateCycle ==
    [][ /\ pc = "update" =>
            /\ Len(Broadcasts(outbox')) = 1
            /\ Broadcasts(outbox')[1].doc = currentVitals'
            /\ Broadcasts(outbox')[1].clients = net.clients
            /\ net' = net
            /\ now' - lastVitalUpdate >= VITAL_UPDATE_INTERVAL
        /\ pc # "update" => Len(Broadcasts(outbox')) = 0 ]_vars

(* a second or later broadcast with no patient and no client, and one      *)
(* with a patient and a client                                             *)
C13_Witness ==
    /\ Len(Broadcasts(outbox)) = 1
    /\ ~patientRegistered
    /\ net.clients = 0
    /\ currentVitals.timestamp >= 2 * VITAL_UPDATE_INTERVAL

(* the rows of the subject's file: its lines but the header *)
CsvRows(card) ==
    SelectSeq(FileLines(card, CsvFileName), LAMBDA line : line # CsvHeader)

\* C14: while a patient is registered and the SD card is ready, every
\* update cycle is followed by the SD save block, which appends to the
\* subject's file exactly one row, the row of the snapshot the cycle
\* committed (whenever the file can be opened).
C14_OneRowPerUpdateCycle ==
    [][ /\ (pc = "update" /\ patientRegistered /\ sdCardReady)
             => pc' = "save"
        /\ (pc = "save" /\ patientRegistered /\ sdCardReady
              /\ sdCard' # sdCard)
             => CsvRows(sdCard') = Append(CsvRows(sdCard),
                                          CsvRow(currentVitals)) ]_vars

\* C14 amended: while a patient is registered and the SD card is ready, the
\* SD save block runs only when at least DATA_SAVE_INTERVAL has passed
\* since the last save; it appends to the subject's file exactly one row,
\* the row of currentVitals at that moment, after the header when the file
\* was empty, unless the file cannot be opened; no other step writes to
\* the card.
C14_OneRowPerSaveInterval ==
    [][ /\ (pc = "save" /\ patientRegistered /\ sdCardReady) =>
             /\ now - lastDataSave >= DATA_SAVE_INTERVAL
             /\ lastDataSave' = now
             /\ \/ sdCard' = sdCard
                \/ /\ CsvRows(sdCard') = Append(CsvRows(sdCard),
                                                CsvRow(currentVitals))
                   /\ Len(FileLines(sdCard', CsvFileName))
                        = Len(CsvRows(sdCard')) + 1
                   /\ FileLines(sdCard', CsvFileName)[1] = CsvHeader
        /\ (pc # "save" \/ ~patientRegistered \/ ~sdCardReady)
             => sdCard' = sdCard ]_vars

(* the subject's file holds the header and the row of a snapshot that an   *)
(* update cycle committed                                                  *)
C14_Witness ==
    /\ patientRegistered
    /\ sdCardReady
    /\ Len(CsvRows(sdCard)) = 1
    /\ CsvRows(sdCard)[1] = CsvRow(currentVitals)
    /\ currentVitals.status \in { "ALERT", "Normal" }

---------------------------------------------------------------------------
(* Claims about the alert message (SpecEval)                               *)

(* the bodies of the SMS messages of the last step, and whether a body     *)
(* has the segment with a given label                                      *)
SmsBodies ==
    { outbox[i].body : i \in { k \in 1..Len(outbox) :
                                 outbox[k].kind = "sms" } }

HasSegment(body, label) ==
    \E i \in 1..Len(body.segments) : body.segments[i].label = label

(* the segments of a body are those of the vitals outside their bands,     *)
(* each at most once                                                       *)
SegmentsAreOutOfBand(body) ==
    /\ HasSegment(body, "Heart Rate: ")
         <=> (currentVitals.heartRate < 50 \/ currentVitals.heartRate > 120)
    /\ HasSegment(body, "Blood Pressure: ")
         <=> (currentVitals.systolicBP < 800
                \/ currentVitals.systolicBP > 1600)
    /\ HasSegment(body, "SpO2: ") <=> currentVitals.spO2 < 90
    /\ HasSegment(body, "Temperature: ")
         <=> (currentVitals.temperature < 950
                \/ currentVitals.temperature > 1020)
    /\ \A i, j \in 1..Len(body.segments) :
         body.segments[i].label = body.segments[j].label => i = j

\* C15 as stated: the body of every alert SMS contains the subject
\* identifier currentPatient.id, and the segment of a vital if and only if
\* that vital is outside its band in this evaluation.
C15_SmsHasIdAndOutOfBandVitals ==
    \A body \in SmsBodies :
        /\ body.subject = currentPatient.id
        /\ SegmentsAreOutOfBand(body)

\* C15 amended: the body of every alert SMS is "ALERT: ", the patient's
\* name (currentPatient.name), " - ", the segment of a vital if and only
\* if that vital is outside its band in this evaluation, and the location
\* line; the identifier currentPatient.id is not part of it.
C15_SmsHasNameAndOutOfBandVitals ==
    \A body \in SmsBodies :
        /\ body.prefix = "ALERT: "
        /\ body.subject = currentPatient.name
        /\ body.subject # currentPatient.id
        /\ body.separator = " - "
        /\ SegmentsAreOutOfBand(body)
        /\ body.suffix = "Location: VitalCare Rural Clinic"

(* an SMS with the heart-rate and temperature segments only *)
C15_Witness ==
    \E body \in SmsBodies :
        /\ Len(body.segments) = 2
        /\ body.segments[1] = [ label |-> "Heart Rate: ",
                                values |-> << 45 >>, unit |-> " BPM. " ]
        /\ body.segments[2].label = "Temperature: "
        /\ currentVitals.spO2 = 99
        /\ currentVitals.systolicBP = 1200

\* C17: for every snapshot evaluated for a registered patient,
\* checkForAlerts ends with the alert status if and only if heartRate < 50
\* or > 120, or systolicBP < 80 or > 160, or spO2 < 90, or temperature < 95
\* or > 102, and with the Normal status otherwise; the verdict is a
\* function of these four values, whatever diastolicBP, ecgValue and
\* pressure are.
C17_VerdictFollowsFourBands ==
    pc = "evaluated" =>
        LET outOfBand ==
              \/ currentVitals.heartRate < 50
              \/ currentVitals.heartRate > 120
              \/ currentVitals.systolicBP < 800
              \/ currentVitals.systolicBP > 1600
              \/ currentVitals.spO2 < 90
              \/ currentVitals.temperature < 950
              \/ currentVitals.temperature > 1020
        IN  /\ outOfBand => currentVitals.status = "ALERT"
            /\ ~outOfBand => currentVitals.status = "Normal"

(* a Normal verdict on the four band limits, with diastolicBP and ecgValue *)
(* zero and a low pressure                                                 *)
C17_Witness ==
    /\ pc = "evaluated"
    /\ currentVitals.status = "Normal"
    /\ currentVitals.heartRate = 50
    /\ currentVitals.systolicBP = 800
    /\ currentVitals.spO2 = 90
    /\ currentVitals.temperature = 950
    /\ currentVitals.diastolicBP = 0
    /\ currentVitals.ecgValue = 0
    /\ currentVitals.pressure = 90000

---------------------------------------------------------------------------
(* Claims about start-up (SpecCare)                                        *)

\* C16: whatever fails at start-up (SPIFFS, BMP180, SD card, SIM800L), the
\* device has started its access point, its web server and its WebSocket
\* server when loop() runs.
C16_ServicesStartedWhateverFails ==
    net.ap /\ net.server /\ net.webSocket

---------------------------------------------------------------------------
(* Claims about notification (SpecCare)                                    *)

(* the messages of one kind among the messages of a step *)
OfKind(box, kind) == SelectSeq(box, LAMBDA msg : msg.kind = kind)

\* C18: in every update cycle for a registered patient whose verdict is
\* alert the buzzer is pulsed once and, if and only if sim800Ready is true
\* and the emergency contact is non-empty, exactly one SMS is sent, to that
\* contact, whatever the verdict of the previous cycle was; a cycle whose
\* verdict is Normal triggers neither; no other step notifies.
C18_NotificationFollowsVerdict ==
    [][ /\ (pc = "update" /\ patientRegistered) =>
             /\ currentVitals'.status \in { "ALERT", "Normal" }
             /\ currentVitals'.status = "ALERT" =>
                  /\ Len(OfKind(outbox', "buzzer")) = 1
                  /\ Len(OfKind(outbox', "sms"))
                       = IF sim800Ready
                            /\ currentPatient.emergencyContact # ""
                           THEN 1 ELSE 0
                  /\ \A i \in 1..Len(OfKind(outbox', "sms")) :
                       OfKind(outbox', "sms")[i].to
                         = currentPatient.emergencyContact
             /\ currentVitals'.status = "Normal" =>
                  /\ Len(OfKind(outbox', "buzzer")) = 0
                  /\ Len(OfKind(outbox', "sms")) = 0
        /\ (pc # "update" \/ ~patientRegistered) =>
             /\ Len(OfKind(outbox', "buzzer")) = 0
             /\ Len(OfKind(outbox', "sms")) = 0 ]_vars

(* a buzzer pulse and an SMS in a later cycle of an alert episode: the     *)
(* heart rate has been 0 in every cycle since the registration             *)
C18_Witness ==
    /\ patientRegistered
    /\ Len(OfKind(outbox, "buzzer")) = 1
    /\ Len(OfKind(outbox, "sms")) = 1
    /\ currentVitals.status = "ALERT"
    /\ currentVitals.heartRate = 0
    /\ lastCalc.windows = << >>
    /\ currentVitals.timestamp > currentPatient.registrationTime

---------------------------------------------------------------------------
(* Claims about the counting window (SpecCare)                             *)

\* C19: the time between two consecutive window resets (updates of
\* pulseWindow in calculateHeartRate) is exactly PULSE_WINDOW_MS, 15 000 ms.
C19_WindowIsExactly15s ==
    [][ pulseWindow' # pulseWindow
          => pulseWindow' - pulseWindow = PULSE_WINDOW_MS ]_vars

---------------------------------------------------------------------------
(* Claims about the detectors of the sensor module (SpecSensor)            *)

(* a pass of loop() over the sensors, and whether it counted a pulse beat  *)
SensorPassTaken ==
    sensorModule'.lastSensorRead # sensorModule.lastSensorRead

PulseBeatCounted == sensorModule'.lastBeat # sensorModule.lastBeat

\* C21: in readPulseSensor a beat is counted only on a sample above the
\* threshold, with the detector armed and more than 300 ms after the
\* counted beat before; counting a beat disarms the detector; and a
\* disarmed detector stays disarmed, and counts nothing, on every sample
\* that is not below threshold - 100.  So after a counted beat no beat is
\* counted until the signal was sampled below threshold - 100 and more
\* than 300 ms have passed.
C21_OneBeatUntilRearmed ==
    [][ SensorPassTaken =>
          /\ PulseBeatCounted =>
               /\ sensorModule'.pulseSignal > threshold
               /\ ~sensorModule.pulseDetected
               /\ SmElapsed(sensorModule.millis, sensorModule.lastBeat)
                    > REFRACTORY_MS
               /\ sensorModule'.pulseDetected
          /\ (sensorModule.pulseDetected
                /\ sensorModule'.pulseSignal >= threshold - REARM_MARGIN) =>
               /\ sensorModule'.pulseDetected
               /\ ~PulseBeatCounted ]_vars

(* a sample above the threshold, a second after the only counted beat,     *)
(* that was not counted: the signal never went below threshold - 100       *)
C21_Witness ==
    /\ sensorModule.pulseSignal > threshold
    /\ sensorModule.pulseDetected
    /\ sensorModule.beatCount = 1
    /\ sensorModule.BPM = 0
    /\ sensorModule.lastSensorRead - sensorModule.lastBeat >= 1000
    /\ sensorEnv.pattern = << threshold + 1, threshold - REARM_MARGIN >>

(* whether a pass counted an ECG beat *)
EcgBeatCounted == sensorModule'.ecgBeatTime # sensorModule.ecgBeatTime

\* C22: in readAD8232 a beat is counted only when the ECG sample crosses
\* the threshold upward: the sample of the read before (ecgSignal, 0 after
\* a read with a lead off) was not above ecgThreshold.
C22_EcgBeatOnlyOnUpwardCrossing ==
    [][ (SensorPassTaken /\ EcgBeatCounted)
          => sensorModule.ecgSignal <= ecgThreshold ]_vars

---------------------------------------------------------------------------
(* Claims about registration (Spec)                                        *)

\* C23: after a successful registration no beat count or window start from
\* before that registration is evaluated for the new subject: when an
\* update cycle closes a counting window for a registered patient, the
\* window (and so every beat counted into the rate) began at or after the
\* registration.
C23_NoBeatsFromBeforeRegistration ==
    [][ (pc = "update" /\ patientRegistered /\ lastCalc'.closed)
          => pulseWindow >= currentPatient.registrationTime ]_vars


---------------------------------------------------------------------------
(* Claims about the firmware while no patient is registered (SpecCare)     *)

\* C25: while no patient is registered no alert is evaluated or delivered:
\* every broadcast carries the status "No Patient", no step pulses the
\* buzzer or sends an SMS, the update block spends no time in
\* checkForAlerts, and nothing is written to the SD card, whatever the
\* sensor values are.
C25_NoAlertWithoutPatient ==
    [][ ~patientRegistered =>
          /\ \A i \in 1..Len(Broadcasts(outbox')) :
                 Broadcasts(outbox')[i].doc.status = "No Patient"
          /\ OfKind(outbox', "buzzer") = << >>
          /\ OfKind(outbox', "sms") = << >>
          /\ pc = "update" => now' = now
          /\ sdCard' = sdCard ]_vars

(* no patient, the SD card and the SIM800L ready: an update cycle has just *)
(* broadcast a temperature outside its band, and the SD save block is the  *)
(* next to run                                                             *)
C25_Witness ==
    /\ ~patientRegistered
    /\ sdCardReady
    /\ sim800Ready
    /\ pc = "save"
    /\ Broadcasts(outbox) # << >>
    /\ TemperatureAlert(currentVitals)
    /\ currentVitals.status = "No Patient"


---------------------------------------------------------------------------
(* Claims about registration requests (Spec)                               *)

\* C26: a registration request with no body, or with a body that is not
\* parseable JSON, is answered with HTTP 400 and success = false and leaves
\* patientRegistered, currentPatient and currentVitals as they were; only a
\* request whose body parses (answered with 200) sets patientRegistered and
\* replaces currentPatient.
C26_BadRequestChangesNothing ==
    [][ /\ \A hasBody \in BOOLEAN, parses \in BOOLEAN, doc \in Docs :
             (/\ ~(hasBody /\ parses)
              /\ handlePatientRegistration(hasBody, parses, doc, 100))
               => /\ Len(outbox') = 1
                  /\ outbox'[1].kind = "response"
                  /\ outbox'[1].code = 400
                  /\ outbox'[1].success = FALSE
                  /\ UNCHANGED << patientRegistered, currentPatient,
                                  currentVitals >>
        /\ (patientRegistered' # patientRegistered
              \/ currentPatient' # currentPatient)
             => /\ \E doc \in Docs :
                      handlePatientRegistration(TRUE, TRUE, doc, 100)
                /\ outbox'[1].code = 200
                /\ outbox'[1].success = TRUE
                /\ patientRegistered' ]_vars

(* vitals on record, no patient yet, and a request whose body does not     *)
(* parse has just been refused                                             *)
C26_Witness ==
    /\ ~patientRegistered
    /\ currentPatient = NoPatient
    /\ currentVitals.timestamp > 0
    /\ Len(outbox) = 1
    /\ outbox[1].kind = "response"
    /\ outbox[1].code = 400
    /\ outbox[1].message = "Invalid JSON"


---------------------------------------------------------------------------
(* Claims about the wrap of millis() (SpecWrap)                            *)

(* the true time since a reference of an elapsed-time check *)
TrueSince(reference) == trueTime.uptime - trueTime[reference]

PeriodicChecksFollowTrueTime ==
    /\ SensorDue(now) <=> TrueSince("lastSensorRead") >= SENSOR_READ_INTERVAL
    /\ VitalDue(now) <=> TrueSince("lastVitalUpdate") >= VITAL_UPDATE_INTERVAL
    /\ SaveDue(now) <=> TrueSince("lastDataSave") >= DATA_SAVE_INTERVAL

WindowCheckFollowsTrueTime ==
    Elapsed(now, pulseWindow) >= PULSE_WINDOW_MS
      <=> TrueSince("pulseWindow") >= PULSE_WINDOW_MS

TimeoutCheckFollowsTrueTime ==
    Elapsed(now, lastHeartbeatTime) > HEARTBEAT_TIMEOUT
      <=> TrueSince("lastHeartbeatTime") > HEARTBEAT_TIMEOUT

\* C27: the periodic tasks survive the wrap of millis(): each elapsed-time
\* check of loop() (sensor read, UI update, SD save) and of
\* calculateHeartRate (15 s window, heartbeat timeout) is true exactly when
\* the true elapsed time has reached its interval; none fires early and
\* none stalls.
C27_ChecksFollowTrueTime ==
    /\ PeriodicChecksFollowTrueTime
    /\ pc = "update" =>
          (WindowCheckFollowsTrueTime /\ TimeoutCheckFollowsTrueTime)

\* C27 as the code has it: the three checks of loop() and the 15 s window
\* check are true exactly when the true elapsed time has reached the
\* interval, across the wrap; the heartbeat timeout check is so while the
\* last beat is less than one turn of the clock old, and compares the true
\* elapsed time modulo the turn otherwise; the heart rate committed by an
\* update cycle is 0 whenever the last beat is truly older than
\* HEARTBEAT_TIMEOUT.
C27_ChecksFollowTrueTimeWithinOneTurn ==
    [][ /\ PeriodicChecksFollowTrueTime
        /\ pc = "update" =>
              /\ WindowCheckFollowsTrueTime
              /\ TrueSince("lastHeartbeatTime") < ClockWrap
                    => TimeoutCheckFollowsTrueTime
              /\ Elapsed(now, lastHeartbeatTime) > HEARTBEAT_TIMEOUT
                    <=> TrueSince("lastHeartbeatTime") % ClockWrap
                          > HEARTBEAT_TIMEOUT
              /\ TrueSince("lastHeartbeatTime") > HEARTBEAT_TIMEOUT
                    => currentVitals'.heartRate = 0 ]_vars

(* after the wrap: the SD save block is about to run on a reference taken  *)
(* before the wrap, the last beat was counted before the wrap and is older *)
(* than the timeout                                                        *)
C27_Witness ==
    /\ trueTime.uptime > ClockWrap
    /\ pc = "save"
    /\ now < lastDataSave
    /\ TrueSince("lastDataSave") >= DATA_SAVE_INTERVAL
    /\ now < lastHeartbeatTime
    /\ TrueSince("lastHeartbeatTime") > HEARTBEAT_TIMEOUT
    /\ currentVitals.heartRate = 0


---------------------------------------------------------------------------
(* Claims about the ECG rate of the sensor module (SpecSensor)             *)

(* a pass in which readAD8232 counts its tenth beat and evaluates          *)
(* 10 * 60000 / ecgHeartRate                                               *)
TenthEcgBeatCounted ==
    /\ SensorPassTaken
    /\ EcgBeatCounted
    /\ sensorModule.ecgBeatCount + 1 >= BPM_BEATS

\* C28: whenever readAD8232 evaluates 10 * 60000 / ecgHeartRate, on the
\* tenth counted ECG beat, ecgHeartRate is not zero (the first time after
\* start-up included) and the resulting timeDiff is a positive elapsed
\* time, so that the rate is updated.
C28_EcgRateNeverDividesByZero ==
    [][ TenthEcgBeatCounted =>
          /\ sensorModule.ecgHeartRate.beats # 0
          /\ sensorModule'.ecgHeartRate.ms > 0
          /\ sensorModule'.ecgHeartRate.beats >= BPM_BEATS ]_vars


---------------------------------------------------------------------------
(* Claims about the files of the SD card (SpecWrap)                        *)

OneHeaderFirst(lines) ==
    /\ Len(lines) >= 2
    /\ lines[1] = CsvHeader
    /\ \A i \in 2..Len(lines) : lines[i] # CsvHeader

\* C29: each per-subject CSV file has exactly one header line and it is
\* the first line; a call of saveDataToSD that opens the file appends
\* exactly one data row after the existing content, with the header before
\* it only when the file was empty; a call made while sdCardReady is false
\* or whose open fails writes nothing, and no other step writes.
C29_OneHeaderThenRows ==
    [][ /\ \A f \in DOMAIN sdCard' : OneHeaderFirst(sdCard'[f])
        /\ \A opens \in BOOLEAN :
             SaveStep(opens) =>
               IF patientRegistered /\ sdCardReady /\ opens
                 THEN /\ DOMAIN sdCard' = DOMAIN sdCard \cup { CsvFileName }
                      /\ \A f \in DOMAIN sdCard \ { CsvFileName } :
                            sdCard'[f] = sdCard[f]
                      /\ sdCard'[CsvFileName] =
                           (IF CsvFileName \in DOMAIN sdCard
                              THEN sdCard[CsvFileName]
                              ELSE << CsvHeader >>)
                             \o << CsvRow(currentVitals) >>
                 ELSE sdCard' = sdCard
        /\ pc # "save" => sdCard' = sdCard ]_vars

(* a file with its header and two rows, written by two calls across the   *)
(* wrap of the clock                                                       *)
C29_Witness ==
    /\ patientRegistered
    /\ CsvFileName \in DOMAIN sdCard
    /\ Len(sdCard[CsvFileName]) = 3
    /\ sdCard[CsvFileName][1] = CsvHeader

---------------------------------------------------------------------------
(* Part 3: the dashboard script (class VitalCareRuralComplete) in one      *)
(* browser page.  sockets are the WebSocket objects the script has         *)
(* created, each with the four handlers of initializeWebSocket attached,   *)
(* in the order of creation: "connecting", "open" or "closed"; ws is the   *)
(* index of the one this.ws refers to; timers counts the pending           *)
(* setTimeout callbacks of onclose; vitalsHistory lists the numbers of     *)
(* the vitals messages added by addToHistory.                              *)
MaxSockets == 3
MaxBroadcasts == 2

(* initializeWebSocket(): a new socket with handlers, assigned to this.ws; *)
(* the socket this.ws referred to is neither closed nor stripped of its    *)
(* handlers                                                                *)
initializeWebSocket(d) ==
    [d EXCEPT !.sockets = Append(@, "connecting"),
              !.ws = Len(d.sockets) + 1]

Live(d) ==
    { i \in 1..Len(d.sockets) : d.sockets[i] \in { "connecting", "open" } }

Open(d) == { i \in 1..Len(d.sockets) : d.sockets[i] = "open" }

(* handleVitalsUpdate() for one message: addToHistory and checkForAlerts,  *)
(* unless no patient is registered                                         *)
handleVitalsUpdate(d, id) ==
    IF ~d.patientRegistered THEN d
    ELSE [d EXCEPT !.vitalsHistory = Append(@, id)]

RECURSIVE Deliver(_, _, _)
Deliver(d, id, n) ==
    IF n = 0 THEN d ELSE Deliver(handleVitalsUpdate(d, id), id, n - 1)

DashboardFrame ==
    /\ FirmwareUnchanged
    /\ UNCHANGED << sensorModule, sensorEnv >>

(* the constructor: init() calls initializeWebSocket() *)
InitDashboard ==
    /\ FirmwareGlobals
    /\ sensorModule = SensorGlobals
    /\ sensorEnv = NoSignal
    /\ dashboard = initializeWebSocket(NoDashboard)

(* onopen, and the init message the device sends to a new client, which    *)
(* handleInitMessage takes as the registration when it carries a patient   *)
SocketOpens ==
    /\ \E i \in 1..Len(dashboard.sockets), registered \in BOOLEAN :
          /\ dashboard.sockets[i] = "connecting"
          /\ dashboard' =
               [dashboard EXCEPT
                  !.sockets[i] = "open",
                  !.connected = TRUE,
                  !.patientRegistered = @ \/ registered]
    /\ DashboardFrame

(* onerror *)
SocketError ==
    /\ Live(dashboard) # { }
    /\ dashboard' = [dashboard EXCEPT !.connected = FALSE]
    /\ DashboardFrame

(* onclose: the status, and a timer that will call initializeWebSocket() *)
SocketCloses ==
    /\ \E i \in Live(dashboard) :
          dashboard' = [dashboard EXCEPT !.sockets[i] = "closed",
                                         !.connected = FALSE,
                                         !.timers = @ + 1]
    /\ DashboardFrame

(* the callback of setTimeout *)
ReconnectTimerFires ==
    /\ dashboard.timers > 0
    /\ Len(dashboard.sockets) < MaxSockets
    /\ dashboard' = initializeWebSocket([dashboard EXCEPT !.timers = @ - 1])
    /\ DashboardFrame

(* the listener of the window's 'online' event *)
BrowserOnline ==
    /\ Len(dashboard.sockets) < MaxSockets
    /\ dashboard' = initializeWebSocket(dashboard)
    /\ DashboardFrame

(* the device broadcasts one vitals message: broadcastTXT sends it to      *)
(* every connected client, and the onmessage handler of every open socket  *)
(* runs handleWebSocketMessage                                             *)
DeviceBroadcast ==
    /\ dashboard.received < MaxBroadcasts
    /\ LET id == dashboard.received + 1
       IN  dashboard' =
             Deliver([dashboard EXCEPT !.received = id], id,
                     Cardinality(Open(dashboard)))
    /\ DashboardFrame

NextDashboard ==
    \/ SocketOpens
    \/ SocketError
    \/ SocketCloses
    \/ ReconnectTimerFires
    \/ BrowserOnline
    \/ DeviceBroadcast

SpecDashboard == InitDashboard /\ [][NextDashboard]_vars

Processed(id) ==
    Len(SelectSeq(dashboard.vitalsHistory, LAMBDA h : h = id))

\* C30: at most one live WebSocket connection with message handlers
\* attached exists per dashboard at any time, under every interleaving of
\* the reconnect timers of onclose, onerror events and 'online' events, and
\* each vitals message the device broadcasts is processed (added to the
\* history, checked for alerts) at most once.
C30_OneLiveSocketPerDashboard ==
    /\ Cardinality(Open(dashboard)) <= 1
    /\ \A id \in 1..MaxBroadcasts : Processed(id) <= 1

====
